---- MODULE Spec2Model ----
(***************************************************************************)
(* A model of flow-jsonschema (index.js, the asynchronous version):        *)
(*   - sleep, the cancellable delay;                                       *)
(*   - callFlowAutoRetry, the retrying invoker of the flow binary;         *)
(*   - makeSchemaFlow88 / makeSchemaFlow89, which assemble the schema map;  *)
(*   - writeValidatorSrc of cmd.js, which writes the destination file.      *)
(* Time is counted in milliseconds and advances in steps of RETRY_INTV;    *)
(* the JavaScript event loop is modelled by letting a macrotask (a process *)
(* exit, a timer) run only when the async function is suspended on a       *)
(* pending promise.                                                        *)
(***************************************************************************)
EXTENDS Integers, Sequences, FiniteSets, TLC

\* callFlowAutoRetry's constants
CALL_TIMEOUT == 1000
MAX_RETRIES == 20
RETRY_INTV == 100

\* A process that was sent a kill signal reports its exit at most this many
\* time steps later.
MaxReapDelay == 0

VARIABLES
    childs,     \* callFlowAutoRetry: childs[idx], the ChildProcess of attempt idx
    promises,   \* callFlowAutoRetry: promises[idx], the promise of attempt idx
    proc,       \* the operating system's view of every launched attempt
    i,          \* callFlowAutoRetry: the round counter of the for loop
    pc,         \* callFlowAutoRetry: where the async function stands
    timer,      \* callFlowAutoRetry: the round's sleep() object
    raced,      \* the slots whose promises the pending Promise.race holds
    race,       \* the state of the Promise.race the function awaits
    outcome,    \* what the call returned or threw
    now,        \* the clock, in ms since the call started
    errlog      \* the errors console.error printed

retryVars == <<childs, promises, proc, i, pc, timer, raced, race, outcome, now, errlog>>

VARIABLES
    ver89,      \* flowVersionGte89(): the flow binary is 0.89 or later
    entry,      \* the entry module makeSchema is called on
    reexp,      \* the module the entry module re-exports D from
    answer,     \* the type descriptor type-at-pos gives at each position
    apc,        \* makeSchemaFlow88/89: where the function stands
    jobs,       \* makeSchemaFlow89: the jobs array, each job with its progress
    nextJob,    \* async.eachLimit: the index of the next job to start
    running,    \* async.eachLimit: the number of jobs in progress
    jsonSchema, \* the name-to-schema map
    flowSource, \* the name-to-source map
    warnings,   \* what console.warn printed: [name, msg]
    asmOutcome, \* what makeSchemaFlow88/89 returned or threw
    validatorSrc \* what makeValidatorSrc returned or threw

asmVars == <<ver89, entry, reexp, answer, apc, jobs, nextJob, running,
             jsonSchema, flowSource, warnings, asmOutcome, validatorSrc>>

VARIABLES
    delay,      \* sleep: the promise sleep() returned, with its timer
    clock,      \* the time since sleep() was called
    cancels     \* the calls of promise.cancel so far: [resolveWith, armed]

delayVars == <<delay, clock, cancels>>

VARIABLES
    tree,       \* parseDesc: the type descriptor it is called on
    frags       \* parseDesc: what the calls on tree so far returned or threw

compVars == <<tree, frags>>

VARIABLES
    fsys,       \* the file system: the file at each destination path
    before,     \* the file system when writeValidatorSrc was called
    cargs,      \* writeValidatorSrc: the arguments srcPath and dstPath
    cpc,        \* writeValidatorSrc: where the function stands
    dstPath,    \* writeValidatorSrc: dstPath after the default was applied
    origSrc,    \* writeValidatorSrc: origSrc, <<>> while undefined
    newSrc,     \* writeValidatorSrc: newSrc, <<>> while undefined
    cerr,       \* writeValidatorSrc: err, "null" while unset
    cliOutcome  \* what writeValidatorSrc returned or threw

cliVars == <<fsys, before, cargs, cpc, dstPath, origSrc, newSrc, cerr, cliOutcome>>

vars == <<childs, promises, proc, i, pc, timer, raced, race, outcome, now, errlog,
          ver89, entry, reexp, answer, apc, jobs, nextJob, running,
          jsonSchema, flowSource, warnings, asmOutcome, validatorSrc,
          delay, clock, cancels, tree, frags,
          fsys, before, cargs, cpc, dstPath, origSrc, newSrc, cerr, cliOutcome>>

----------------------------------------------------------------------------
\* sleep(), the cancellable delay

ABANDON == "ABANDON"

\* No sleep object exists.
NoTimer == [timerId |-> "null", st |-> "none", res |-> "none", val |-> "none", due |-> 0]

\* sleep(msec, val) called at time t: the timer is armed, the promise pending.
sleep(msec, val, t) ==
    [timerId |-> "set", st |-> "pending", res |-> "none", val |-> val, due |-> t + msec]

\* The setTimeout callback of sleep.
sleepElapse(s) ==
    [s EXCEPT !.timerId = "null", !.st = "resolved", !.res = s.val]

\* Mutant of sleepCancel: ABANDON leaves the timer armed.
sleepCancel_keepTimer(s, resolveWith) ==
    IF s.timerId # "null" /\ resolveWith # ABANDON
    THEN [s EXCEPT !.timerId = "null", !.st = "resolved", !.res = resolveWith]
    ELSE s

\* Mutant of sleepCancel: the state of the timer is not looked at.
sleepCancel_always(s, resolveWith) ==
    IF resolveWith # ABANDON
    THEN [s EXCEPT !.timerId = "null", !.st = "resolved", !.res = resolveWith]
    ELSE [s EXCEPT !.timerId = "null"]

\* promise.cancel(resolveWith)
sleepCancel(s, resolveWith) ==
    IF s.timerId # "null"
    THEN IF resolveWith # ABANDON
         THEN [s EXCEPT !.timerId = "null", !.st = "resolved", !.res = resolveWith]
         ELSE [s EXCEPT !.timerId = "null"]
    ELSE s

----------------------------------------------------------------------------
\* parseDesc, the compiler from a type descriptor to a JSON schema fragment.
\* A descriptor is a record with the fields of the flow-parser node it
\* stands for; a schema is a record of JSON schema keywords.  The result of
\* a call is Ok(schema) or Throw(exception class, message).

Ok(schema) == [ok |-> TRUE, schema |-> schema]
Throw(exc, msg) == [ok |-> FALSE, exc |-> exc, msg |-> msg]

\* {} , the schema without keywords
EmptySchema == [k \in {} |-> TRUE]

\* The property names of the model in the order of their UTF-16 code units,
\* which is the order Array.prototype.sort() puts strings in.
KeyOrder == <<"A", "B", "C", "D", "E", "a", "ab", "b", "c">>
KeyRank(key) == CHOOSE r \in 1..Len(KeyOrder) : KeyOrder[r] = key

RECURSIVE SortedInsert(_, _)
SortedInsert(sorted, key) ==
    IF sorted = <<>> THEN <<key>>
    ELSE IF KeyRank(key) < KeyRank(Head(sorted)) THEN <<key>> \o sorted
    ELSE <<Head(sorted)>> \o SortedInsert(Tail(sorted), key)

\* Mutant of SortKeys: the array is left in the order of the pushes.
SortKeys_unsorted(keys) == keys

\* res.required.sort()
RECURSIVE SortKeys(_)
SortKeys(keys) ==
    IF keys = <<>> THEN <<>>
    ELSE SortedInsert(SortKeys(SubSeq(keys, 1, Len(keys) - 1)), keys[Len(keys)])

\* res.properties[key] = value on an insertion-ordered object: a key that is
\* present keeps its place, a new key goes last.
PropSet(props, key, value) ==
    IF \E k \in 1..Len(props) : props[k].key = key
    THEN [k \in 1..Len(props) |->
            IF props[k].key = key THEN [key |-> key, value |-> value] ELSE props[k]]
    ELSE Append(props, [key |-> key, value |-> value])

\* Mutant of parseDescMap: a list of more than one type is not supported.
parseDescMap_single(types) ==
    IF Len(types) > 1 THEN [ok |-> FALSE, exc |-> "UnsupportedTypeError", msg |-> "list"]
    ELSE [ok |-> TRUE, schema |-> <<>>]

\* Mutant of WithNoAdditional: the keyword is not set.
WithNoAdditional_unset(schema) == schema

\* res.additionalProperties = false
WithNoAdditional(schema) ==
    [k \in DOMAIN schema \cup {"additionalProperties"} |->
        IF k = "additionalProperties" THEN FALSE ELSE schema[k]]

\* Mutant of IsObjectSchema: only a schema that has the keyword already.
IsObjectSchema_closed(schema) ==
    /\ "type" \in DOMAIN schema /\ schema.type = "object"
    /\ "additionalProperties" \in DOMAIN schema

\* res.type === 'object'
IsObjectSchema(schema) == "type" \in DOMAIN schema /\ schema.type = "object"

\* Mutant of IndexerWithProps: a single named property is let through.
IndexerWithProps_two(desc) == Len(desc.properties) > 1

\* desc.properties.length > 0, of a shape that has an indexer
IndexerWithProps(desc) == Len(desc.properties) > 0

\* parseLiteral(desc)
parseLiteral(desc) ==
    IF desc.type \in {"StringLiteralTypeAnnotation", "NumberLiteralTypeAnnotation",
                      "BooleanLiteralTypeAnnotation"}
    THEN Ok(desc.value)
    ELSE Throw("Error", "unsupported type")

RECURSIVE parseDesc(_)
RECURSIVE parseDescMap(_)
RECURSIVE parseProps(_, _)

\* desc.types.map(parseDesc): the schemas in order, or the first exception
parseDescMap(types) ==
    IF types = <<>> THEN Ok(<<>>)
    ELSE LET first == parseDesc(Head(types))
         IN IF ~first.ok THEN first
            ELSE LET rest == parseDescMap(Tail(types))
                 IN IF ~rest.ok THEN rest
                    ELSE Ok(<<first.schema>> \o rest.schema)

\* for (let prop of desc.properties) { ... }: res is the object schema built
\* so far
parseProps(props, res) ==
    IF props = <<>> THEN Ok(res)
    ELSE LET prop == Head(props)
         IN IF \/ prop.type # "ObjectTypeProperty"
               \/ prop.kind # "init"
               \/ prop.keyType # "Identifier"
            THEN Throw("AssertionError", "assert")
            ELSE LET value == parseDesc(prop.value)
                 IN IF ~value.ok THEN value
                    ELSE parseProps(Tail(props),
                            [res EXCEPT
                                !.properties = PropSet(@, prop.key, value.schema),
                                !.required = IF prop.optional # TRUE
                                             THEN Append(@, prop.key) ELSE @])

\* case 'ObjectTypeAnnotation' without call properties and indexers
parseObjectPlain(desc) ==
    LET res == parseProps(desc.properties,
                          [type |-> "object", properties |-> <<>>, required |-> <<>>])
    IN IF ~res.ok THEN res
       ELSE LET exact == IF desc.exact THEN WithNoAdditional(res.schema) ELSE res.schema
            IN Ok([exact EXCEPT !.required = SortKeys(@)])

parseDesc(desc) ==
    CASE desc.type = "StringLiteralTypeAnnotation" ->
            Ok([type |-> "string", enum |-> <<parseLiteral(desc).schema>>])
      [] desc.type = "NumberLiteralTypeAnnotation" ->
            Ok([type |-> "number", enum |-> <<parseLiteral(desc).schema>>])
      [] desc.type = "BooleanLiteralTypeAnnotation" ->
            Ok([type |-> "boolean", enum |-> <<parseLiteral(desc).schema>>])
      [] desc.type = "NullLiteralTypeAnnotation" -> Ok([type |-> "null"])
      [] desc.type = "StringTypeAnnotation" -> Ok([type |-> "string"])
      [] desc.type = "NumberTypeAnnotation" -> Ok([type |-> "number"])
      [] desc.type = "BooleanTypeAnnotation" -> Ok([type |-> "boolean"])
      [] desc.type = "VoidTypeAnnotation" ->
            Throw("UnsupportedTypeError", "undefined types not supported")
      [] desc.type = "NullableTypeAnnotation" ->
            LET inner == parseDesc(desc.typeAnnotation)
            IN IF ~inner.ok THEN inner
               ELSE Ok([anyOf |-> <<[type |-> "null"], inner.schema>>])
      [] desc.type = "ObjectTypeAnnotation" ->
            IF Len(desc.callProperties) # 0
            THEN Throw("UnsupportedTypeError", "call properties not supported")
            ELSE IF Len(desc.indexers) # 0
            THEN IF IndexerWithProps(desc)
                 THEN Throw("UnsupportedTypeError",
                            "objects with both static properties and indexed properties are not supported")
                 ELSE LET valueType == parseDesc(desc.indexers[1].value)
                      IN IF ~valueType.ok THEN valueType
                         ELSE Ok([type |-> "object",
                                  patternProperties |-> <<[key |-> ".*", value |-> valueType.schema]>>,
                                  additionalProperties |-> FALSE])
            ELSE parseObjectPlain(desc)
      [] desc.type = "TupleTypeAnnotation" ->
            LET items == parseDescMap(desc.types)
            IN IF ~items.ok THEN items
               ELSE Ok([type |-> "array", items |-> items.schema])
      [] desc.type = "GenericTypeAnnotation" ->
            IF desc.idType # "Identifier" THEN Throw("AssertionError", "assert")
            ELSE IF desc.name = "Array"
            THEN IF Len(desc.params) # 1 THEN Throw("AssertionError", "assert")
                 ELSE LET res == parseDesc(desc.params[1])
                      IN IF ~res.ok THEN res
                         ELSE Ok([type |-> "array", items |-> res.schema])
            ELSE IF desc.name = "$Exact"
            THEN IF Len(desc.params) # 1 THEN Throw("AssertionError", "assert")
                 ELSE LET res == parseDesc(desc.params[1])
                      IN IF ~res.ok THEN res
                         ELSE IF IsObjectSchema(res.schema)
                              THEN Ok(WithNoAdditional(res.schema))
                              ELSE res
            ELSE Throw("UnsupportedTypeError", "unsupported type: " \o desc.name)
      [] desc.type = "UnionTypeAnnotation" ->
            LET types == parseDescMap(desc.types)
            IN IF ~types.ok THEN types
               ELSE Ok([anyOf |-> types.schema])
      [] desc.type = "AnyTypeAnnotation" -> Ok(EmptySchema)
      [] OTHER -> Throw("Error", "unknown type " \o desc.type)

\* Descriptors
DString == [type |-> "StringTypeAnnotation"]
DNumber == [type |-> "NumberTypeAnnotation"]
DVoid == [type |-> "VoidTypeAnnotation"]
DFunction == [type |-> "FunctionTypeAnnotation"]
DProp(key, value, optional) ==
    [type |-> "ObjectTypeProperty", kind |-> "init", keyType |-> "Identifier",
     key |-> key, value |-> value, optional |-> optional]
DObject(props, exact) ==
    [type |-> "ObjectTypeAnnotation", callProperties |-> <<>>, indexers |-> <<>>,
     properties |-> props, exact |-> exact]
DGeneric(name, params) ==
    [type |-> "GenericTypeAnnotation", idType |-> "Identifier", name |-> name,
     params |-> params]

----------------------------------------------------------------------------
\* cmd.js: writeValidatorSrc(srcPath, dstPath = null), and the files it
\* reads and writes.  The content of a file is a sequence of characters; a
\* path is its name without the extension and the extension.

Absent == [exists |-> FALSE, data |-> <<>>]
File(data) == [exists |-> TRUE, data |-> data]

Path(stem, ext) == [stem |-> stem, ext |-> ext]
NullPath == Path("", "")

\* /\.js$/.test(srcPath)
EndsWithJs(path) == path.ext \in {".js", ".validator.js"}

\* srcPath.replace(/\.js$/, '.validator.js')
DefaultDst(srcPath) == Path(srcPath.stem, ".validator.js")

\* const flowMark = '//@flow';
flowMark == <<"/", "/", "@", "f", "l", "o", "w">>

\* String.prototype.slice(from, to) and slice(from), for 0 <= from <= to
Slice(str, from, to) == SubSeq(str, from + 1, IF to < Len(str) THEN to ELSE Len(str))
SliceFrom(str, from) == SubSeq(str, from + 1, Len(str))

\* origSrc.slice(0, flowMark.length) === flowMark
HasFlowMark(src) == Slice(src, 0, Len(flowMark)) = flowMark

\* let tempSrc = origSrc.slice(flowMark.length);
StripMark(src) == SliceFrom(src, Len(flowMark))

\* fs.writeFileSync(path, data)
writeFileSync(f, path, data) == [f EXCEPT ![path] = File(data)]

\* Mutant of WriteBack: nothing is written after a failed generation.
WriteBack_none(f, path, orig) == f

\* if (origSrc != null) fs.writeFileSync(dstPath, origSrc);
WriteBack(f, path, orig) ==
    IF orig # <<>> THEN writeFileSync(f, path, orig[1]) ELSE f

\* The paths the command may be given, and the destinations they lead to
SrcPaths == {Path("types", ".js"), Path("types", ".mjs")}
DstArgs == {NullPath, Path("out", ".js")}
DstPaths == {Path("types", ".validator.js"), Path("out", ".js")}

\* What gen.makeValidatorSrc(srcPath) of index.js returns (the source
\* text, which starts with the flow mark) or throws.
GenSrc(n) == flowMark \o <<"\n", n>>
GenResults ==
    {[ok |-> TRUE, src |-> GenSrc(n), err |-> "null"] : n \in {"1", "2"}}
    \cup {[ok |-> FALSE, src |-> <<>>, err |-> e] :
            e \in {"Error: no types to process", "Error: Command failed: flow"}}

\* The contents a destination may have when the command runs
Contents ==
    {<<>>, flowMark, flowMark \o <<"\n", "a">>, <<" ">> \o flowMark,
     <<"/", "/", "@">>, <<"a">>, GenSrc("1")}
Files == {Absent} \cup {File(c) : c \in Contents}

NoCliOutcome == [kind |-> "none", err |-> "null"]

\* writeValidatorSrc is not running.
CliIdle ==
    /\ fsys = [path \in DstPaths |-> Absent]
    /\ before = fsys
    /\ cargs = [srcPath |-> NullPath, dstPath |-> NullPath]
    /\ cpc = "off"
    /\ dstPath = NullPath
    /\ origSrc = <<>>
    /\ newSrc = <<>>
    /\ cerr = "null"
    /\ cliOutcome = NoCliOutcome

\* Lines 11-26: the default destination; the destination is read if it
\* exists and rewritten without its flow mark if it starts with one.
cliPrepare ==
    /\ cpc = "call"
    /\ IF cargs.dstPath = NullPath /\ ~EndsWithJs(cargs.srcPath)
       THEN /\ cliOutcome' = [kind |-> "throw", err |-> "AssertionError"]
            /\ cpc' = "done"
            /\ UNCHANGED <<fsys, dstPath, origSrc>>
       ELSE /\ dstPath' = IF cargs.dstPath = NullPath
                          THEN DefaultDst(cargs.srcPath) ELSE cargs.dstPath
            /\ IF fsys[dstPath'].exists
               THEN /\ origSrc' = <<fsys[dstPath'].data>>
                    /\ fsys' = IF HasFlowMark(origSrc'[1])
                               THEN writeFileSync(fsys, dstPath', StripMark(origSrc'[1]))
                               ELSE fsys
               ELSE UNCHANGED <<origSrc, fsys>>
            /\ cpc' = "gen"
            /\ UNCHANGED cliOutcome
    /\ UNCHANGED <<before, cargs, newSrc, cerr>>
    /\ UNCHANGED <<retryVars, asmVars, delayVars, compVars>>

\* Lines 28-34: try { newSrc = gen.makeValidatorSrc(srcPath) } catch (err_) { err = err_ }
cliGenerate ==
    /\ cpc = "gen"
    /\ \E res \in GenResults :
        IF res.ok
        THEN newSrc' = <<res.src>> /\ cerr' = cerr
        ELSE cerr' = res.err /\ newSrc' = newSrc
    /\ cpc' = "finish"
    /\ UNCHANGED <<fsys, before, cargs, dstPath, origSrc, cliOutcome>>
    /\ UNCHANGED <<retryVars, asmVars, delayVars, compVars>>

\* Lines 35-45: the new source is written, or the original is written back
\* and the error thrown.
cliFinish ==
    /\ cpc = "finish"
    /\ IF cerr = "null" /\ newSrc # <<>>
       THEN /\ fsys' = writeFileSync(fsys, dstPath, newSrc[1])
            /\ cliOutcome' = [kind |-> "return", err |-> "null"]
       ELSE IF cerr # "null"
       THEN /\ fsys' = WriteBack(fsys, dstPath, origSrc)
            /\ cliOutcome' = [kind |-> "throw", err |-> cerr]
       ELSE /\ cliOutcome' = [kind |-> "throw", err |-> "Error"]
            /\ UNCHANGED fsys
    /\ cpc' = "done"
    /\ UNCHANGED <<before, cargs, dstPath, origSrc, newSrc, cerr>>
    /\ UNCHANGED <<retryVars, asmVars, delayVars, compVars>>

NextCli == cliPrepare \/ cliGenerate \/ cliFinish

----------------------------------------------------------------------------
\* callFlowAutoRetry

NoErr == [name |-> "none", killed |-> FALSE, errno |-> "none", by |-> -1]

\* The error execFile passes to its callback when attempt idx did not exit
\* with code 0; killed tells whether the child had been sent a kill signal.
ExecErr(idx, killed) == [name |-> "exec", killed |-> killed, errno |-> "none", by |-> idx]

\* The error execFile throws synchronously when the process cannot be started.
StartErr(idx) == [name |-> "start", killed |-> FALSE, errno |-> "none", by |-> idx]

\* The error the round's timer.then() callback throws.
TimedOutErr == [name |-> "timer", killed |-> FALSE, errno |-> "ETIMEDOUT", by |-> -1]

AssertErr == [name |-> "assert", killed |-> FALSE, errno |-> "none", by |-> -1]

ExhaustedErr == [name |-> "exhausted", killed |-> FALSE, errno |-> "none", by |-> -1]

NoRace == [st |-> "none", by |-> -1, err |-> NoErr]
PendingRace == [st |-> "pending", by |-> -1, err |-> NoErr]

NoOutcome == [kind |-> "none", by |-> -1, err |-> NoErr]

\* Mutants of Retryable: every error is retried; only the timeout is retried.
Retryable_all(err) == TRUE
Retryable_timeoutOnly(err) == err.errno = "ETIMEDOUT"

\* if (err.killed || err.errno === 'ETIMEDOUT') continue;
Retryable(err) == err.killed \/ err.errno = "ETIMEDOUT"

\* promises.filter(p => p != null), as the set of slot indices
Avail(ps) == {k \in 1..Len(ps) : ps[k] # "null"}

Min(S) == CHOOSE x \in S : \A y \in S : x <= y

\* Promise.race over the promises of the slots in av (and, in a round, the
\* timer): already rejected by the first promise that is rejected at the
\* time of the call, pending otherwise.  assert(avail.length > 0) fails when
\* av is empty.
RaceOf(ps, av, asserted) ==
    IF asserted /\ av = {}
    THEN [st |-> "rejected", by |-> -1, err |-> AssertErr]
    ELSE LET rej == {k \in av : ps[k] = "rej_start"}
         IN IF rej # {}
            THEN [st |-> "rejected", by |-> Min(rej), err |-> StartErr(Min(rej))]
            ELSE PendingRace

\* Mutant of launchPromise: a start that throws leaves no promise in the slot.
launchPromise_dropped(throws) == IF throws THEN "null" ELSE "pending"

\* launch(): idx = childs.length; execFile either starts the process or throws
\* inside the promise executor, which rejects p and leaves child undefined.
launchChild(throws) == IF throws THEN "undefined" ELSE "child"
launchPromise(throws) == IF throws THEN "rej_start" ELSE "pending"
launchProc(throws, t) ==
    [st |-> IF throws THEN "nostart" ELSE "running",
     launchedAt |-> t, sigAt |-> -1, exitedAt |-> -1, result |-> "none"]

\* Mutant of RoundAvail: the round races only the attempt it launched.
RoundAvail_latest(ps) == {Len(ps)}

\* The slots the round races: promises.filter(p => p != null)
RoundAvail(ps) == Avail(ps)

\* Mutant of MainBlocked: no callback runs while the drain loop waits.
MainBlocked_roundOnly == pc = "await_round" /\ race.st = "pending"

\* The async function is suspended on a promise that has not settled: only
\* then does the event loop run a macrotask.
MainBlocked == pc \in {"await_round", "await_drain"} /\ race.st = "pending"

\* Mutant of LoopCond: one round too many.
LoopCond_le(n) == n <= MAX_RETRIES

\* Mutant of RoundDelay: the delay of the next round.
RoundDelay_long(n) == RETRY_INTV * (n + 2)

\* for (let i = 0; i < MAX_RETRIES; i++)
LoopCond(n) == n < MAX_RETRIES

\* const d = RETRY_INTV * (i + 1);
RoundDelay(n) == RETRY_INTV * (n + 1)

\* The body of the for loop up to the await: launch();
\* timer = sleep(d); await Promise.race([...avail, timer.then(throw ETIMEDOUT)])
StartRound ==
    /\ pc = "round"
    /\ LoopCond(i)
    /\ \E throws \in BOOLEAN :
        /\ childs' = Append(childs, launchChild(throws))
        /\ promises' = Append(promises, launchPromise(throws))
        /\ proc' = Append(proc, launchProc(throws, now))
    /\ timer' = sleep(RoundDelay(i), "undefined", now)
    /\ raced' = RoundAvail(promises')
    /\ race' = RaceOf(promises', raced', TRUE)
    /\ pc' = "await_round"
    /\ UNCHANGED <<i, outcome, now, errlog>>
    /\ UNCHANGED <<asmVars, delayVars, compVars, cliVars>>

\* The outcome of the round once its race has settled:
\* return out / continue / throw err
RoundReturns(r) == r.st = "resolved"
RoundContinues(r) == r.st = "rejected" /\ Retryable(r.err)

\* Mutant of RoundCancel: the round leaves its delay as it is.
RoundCancel_skipped(t) == t

\* finally { timer.cancel(sleep.ABANDON); }
RoundCancel(t) == sleepCancel(t, ABANDON)

\* The function resumes after the round's race settled: finally
\* timer.cancel(ABANDON), then return, continue or throw.
ResumeRound ==
    /\ pc = "await_round"
    /\ race.st \in {"resolved", "rejected"}
    /\ timer' = RoundCancel(timer)
    /\ IF RoundReturns(race)
       THEN /\ outcome' = [kind |-> "return", by |-> race.by, err |-> NoErr]
            /\ pc' = "finally"
            /\ i' = i
       ELSE IF RoundContinues(race)
       THEN /\ outcome' = outcome
            /\ i' = i + 1
            /\ pc' = "round"
       ELSE /\ outcome' = [kind |-> "throw", by |-> race.by, err |-> race.err]
            /\ pc' = "finally"
            /\ i' = i
    /\ race' = NoRace
    /\ raced' = {}
    /\ UNCHANGED <<childs, promises, proc, now, errlog>>
    /\ UNCHANGED <<asmVars, delayVars, compVars, cliVars>>

\* Mutant of DrainAvail: the drain loop sees no attempt.
DrainAvail_none(ps) == {}

\* while (true): avail = promises.filter(p => p != null);
\* if (avail.length === 0) break (and throw 'max retry count exceeded');
\* await Promise.race(avail)
DrainAvail(ps) == Avail(ps)

DrainStep ==
    /\ \/ pc = "round" /\ ~LoopCond(i)
       \/ pc = "drain"
    /\ IF DrainAvail(promises) = {}
       THEN /\ outcome' = [kind |-> "throw", by |-> -1, err |-> ExhaustedErr]
            /\ pc' = "finally"
            /\ UNCHANGED <<raced, race>>
       ELSE /\ raced' = DrainAvail(promises)
            /\ race' = RaceOf(promises, raced', FALSE)
            /\ pc' = "await_drain"
            /\ UNCHANGED outcome
    /\ UNCHANGED <<childs, promises, proc, i, timer, now, errlog>>
    /\ UNCHANGED <<asmVars, delayVars, compVars, cliVars>>

DrainContinues(r) == r.st = "rejected" /\ Retryable(r.err)

\* The function resumes after a drain race settled.
ResumeDrain ==
    /\ pc = "await_drain"
    /\ race.st \in {"resolved", "rejected"}
    /\ IF race.st = "resolved"
       THEN /\ outcome' = [kind |-> "return", by |-> race.by, err |-> NoErr]
            /\ pc' = "finally"
       ELSE IF DrainContinues(race)
       THEN /\ outcome' = outcome
            /\ pc' = "drain"
       ELSE /\ outcome' = [kind |-> "throw", by |-> race.by, err |-> race.err]
            /\ pc' = "finally"
    /\ race' = NoRace
    /\ raced' = {}
    /\ UNCHANGED <<childs, promises, proc, i, timer, now, errlog>>
    /\ UNCHANGED <<asmVars, delayVars, compVars, cliVars>>

\* killall(): for (const child of childs) if (child != null && !child.killed)
\* child.kill().  failAt = 0: no kill() throws; otherwise kill() throws at
\* slot failAt, which ends the loop.  The result is the slots kill() was
\* called on successfully.
KillTargets(cs) == {k \in 1..Len(cs) : cs[k] = "child"}
Killed(cs, failAt) ==
    {k \in KillTargets(cs) : failAt = 0 \/ k < failAt}

\* finally { try { killall(); } catch (err) { console.error(err); } }
Finally ==
    /\ pc = "finally"
    /\ \E failAt \in {0} \cup KillTargets(childs) :
        /\ childs' = [k \in 1..Len(childs) |->
                        IF k \in Killed(childs, failAt) THEN "child_killed" ELSE childs[k]]
        /\ proc' = [k \in 1..Len(proc) |->
                        IF k \in Killed(childs, failAt)
                        THEN [proc[k] EXCEPT !.st = "signalled", !.sigAt = now]
                        ELSE proc[k]]
        /\ errlog' = IF failAt = 0 THEN errlog ELSE Append(errlog, failAt)
    /\ pc' = "done"
    /\ UNCHANGED <<promises, i, timer, raced, race, outcome, now>>
    /\ UNCHANGED <<asmVars, delayVars, compVars, cliVars>>

\* Mutant of Settle: only the newest attempt of the race can settle it.
Settle_newestOnly(r, rc, idx, st, err) ==
    IF r.st = "pending" /\ idx \in rc /\ \A k \in rc : k <= idx
    THEN [st |-> st, by |-> idx, err |-> err]
    ELSE r

\* The promise of slot idx settles while a race is pending.
Settle(r, rc, idx, st, err) ==
    IF r.st = "pending" /\ idx \in rc
    THEN [st |-> st, by |-> idx, err |-> err]
    ELSE r

\* Mutant of exitPromise: the callback leaves the promise in its slot.
exitPromise_kept == "pending"

\* The slot values the execFile callback writes:
\* childs[idx] = null; promises[idx] = null;
exitChild == "null"
exitPromise == "null"

\* The process of an attempt after its exit: a successful exit keeps its
\* times, the times of a failed one are of no further use.
exitProc(p, ok, t) ==
    IF ok
    THEN [p EXCEPT !.st = "exited", !.exitedAt = t, !.result = "ok"]
    ELSE [st |-> "exited", launchedAt |-> -1, sigAt |-> -1, exitedAt |-> -1,
          result |-> IF p.st = "signalled" THEN "killed" ELSE "fatal"]

\* The execFile callback of attempt idx: the process exited with code 0
\* (ok) or not.
AttemptExit(idx, ok) ==
    /\ MainBlocked
    /\ idx \in 1..Len(proc)
    /\ proc[idx].st \in {"running", "signalled"}
    /\ childs' = [childs EXCEPT ![idx] = exitChild]
    /\ promises' = [promises EXCEPT ![idx] = exitPromise]
    /\ proc' = [proc EXCEPT ![idx] = exitProc(proc[idx], ok, now)]
    /\ race' = IF ok
               THEN Settle(race, raced, idx, "resolved", NoErr)
               ELSE Settle(race, raced, idx, "rejected",
                           ExecErr(idx, proc[idx].st = "signalled"))
    /\ UNCHANGED <<i, pc, timer, raced, outcome, now, errlog>>
    /\ UNCHANGED <<asmVars, delayVars, compVars, cliVars>>

\* execFile's timeout option: CALL_TIMEOUT ms after the launch the child is
\* sent the kill signal (child.killed becomes true).
ExecTimeout(idx) ==
    /\ MainBlocked
    /\ idx \in 1..Len(proc)
    /\ proc[idx].st = "running"
    /\ now >= proc[idx].launchedAt + CALL_TIMEOUT
    /\ childs' = [childs EXCEPT ![idx] = "child_killed"]
    /\ proc' = [proc EXCEPT ![idx] = [@ EXCEPT !.st = "signalled", !.sigAt = now]]
    /\ UNCHANGED <<promises, i, pc, timer, raced, race, outcome, now, errlog>>
    /\ UNCHANGED <<asmVars, delayVars, compVars, cliVars>>

\* The round's delay elapses: sleep's timeout callback resolves the promise
\* and the then() callback throws the ETIMEDOUT error into the race.
TimerFire ==
    /\ MainBlocked
    /\ timer.timerId = "set"
    /\ now >= timer.due
    /\ timer' = sleepElapse(timer)
    /\ race' = [st |-> "rejected", by |-> -1, err |-> TimedOutErr]
    /\ UNCHANGED <<childs, promises, proc, i, pc, raced, outcome, now, errlog>>
    /\ UNCHANGED <<asmVars, delayVars, compVars, cliVars>>

\* Time passes, unless something is due now.
Tick ==
    /\ MainBlocked
    /\ ~(timer.timerId = "set" /\ timer.due <= now)
    /\ \A k \in 1..Len(proc) :
        /\ proc[k].st = "running" => now < proc[k].launchedAt + CALL_TIMEOUT
        /\ proc[k].st = "signalled" => now < proc[k].sigAt + MaxReapDelay * RETRY_INTV
    /\ now' = now + RETRY_INTV
    /\ UNCHANGED <<childs, promises, proc, i, pc, timer, raced, race, outcome, errlog>>
    /\ UNCHANGED <<asmVars, delayVars, compVars, cliVars>>

\* The state of callFlowAutoRetry when it is called.
\* sleep() has not been called on its own.
DelayIdle == delay = NoTimer /\ clock = 0 /\ cancels = <<>>

\* parseDesc has not been called on its own.
NoDesc == [type |-> "none"]
CompIdle == tree = NoDesc /\ frags = <<>>

RetryStart ==
    /\ childs = <<>>
    /\ promises = <<>>
    /\ proc = <<>>
    /\ i = 0
    /\ pc = "round"
    /\ timer = NoTimer
    /\ raced = {}
    /\ race = NoRace
    /\ outcome = NoOutcome
    /\ now = 0
    /\ errlog = <<>>

NextRetry ==
    \/ StartRound
    \/ ResumeRound
    \/ DrainStep
    \/ ResumeDrain
    \/ Finally
    \/ \E idx \in 1..MAX_RETRIES, ok \in BOOLEAN : AttemptExit(idx, ok)
    \/ \E idx \in 1..MAX_RETRIES : ExecTimeout(idx)
    \/ TimerFire
    \/ Tick

\* makeSchema is not running.
\* makeValidatorSrc has not settled.
NoValidatorSrc == [kind |-> "none", err |-> "none", typeNames |-> <<>>, defs |-> <<>>]

AsmIdle ==
    /\ ver89 = TRUE
    /\ entry = "none"
    /\ reexp = "none"
    /\ answer = <<>>
    /\ apc = "off"
    /\ jobs = <<>>
    /\ nextJob = 1
    /\ running = 0
    /\ jsonSchema = <<>>
    /\ flowSource = <<>>
    /\ warnings = {}
    /\ asmOutcome = [kind |-> "none", err |-> "none"]
    /\ validatorSrc = NoValidatorSrc

InitRetry == RetryStart /\ AsmIdle /\ DelayIdle /\ CompIdle /\ CliIdle

SpecRetry == InitRetry /\ [][NextRetry]_vars

\* The steps of the async function itself: each runs as soon as the promise
\* it waits for has settled.
MainStep == StartRound \/ ResumeRound \/ DrainStep \/ ResumeDrain \/ Finally

\* The process of an attempt that was sent the kill signal exits.
KilledExit ==
    \E idx \in 1..MAX_RETRIES, ok \in BOOLEAN :
        /\ idx <= Len(proc) /\ proc[idx].st = "signalled"
        /\ AttemptExit(idx, ok)

\* The event loop runs the function's continuations, lets time pass and
\* runs the timers that are due; a process that was sent the kill signal
\* exits.  A running process need not exit on its own.
SpecRetryFair ==
    /\ InitRetry /\ [][NextRetry]_vars
    /\ WF_vars(MainStep)
    /\ WF_vars(TimerFire)
    /\ WF_vars(Tick)
    /\ WF_vars(\E idx \in 1..MAX_RETRIES : ExecTimeout(idx))
    /\ WF_vars(KilledExit)

TypeOKRetry ==
    /\ Len(childs) = Len(promises) /\ Len(proc) = Len(childs)
    /\ i \in 0..MAX_RETRIES
    /\ pc \in {"round", "await_round", "drain", "await_drain", "finally", "done"}

----------------------------------------------------------------------------
\* Claims about callFlowAutoRetry

Live(k) == proc[k].st \in {"running", "signalled"}
Settled == pc = "done"
FromRound == i < MAX_RETRIES
FailedFatally(k) == proc[k].result = "fatal" \/ proc[k].st = "nostart"
FatalErrOf(k) == IF proc[k].st = "nostart" THEN StartErr(k) ELSE ExecErr(k, FALSE)
SumTo(n) == (n * (n + 1)) \div 2
KilledOrTimedOut(err) == err.killed \/ err.errno = "ETIMEDOUT"

\* C1: on every exit path every attempt process that is still live has been
\* sent the kill signal when the call settles, also when a kill() raised an
\* error (which is logged and does not replace the call's outcome).
C1_AllLiveKilledOnExit ==
    Settled =>
        /\ \A k \in 1..Len(proc) : proc[k].st # "running"
        /\ outcome.kind \in {"return", "throw"}
        /\ outcome.err.name \in {"none", "exec", "start", "exhausted", "assert"}

\* C2: a returned value is the output of an attempt of this call that exited
\* with success, no other attempt has succeeded by then, and a return out of
\* a round leaves the round's delay cancelled with ABANDON (timer stopped,
\* promise never resolved) with no launch after the winning round's.
C2_FirstSuccessReturned ==
    outcome.kind = "return" =>
        /\ outcome.by \in 1..Len(proc)
        /\ proc[outcome.by].result = "ok"
        /\ \A k \in 1..Len(proc) : k # outcome.by => proc[k].result # "ok"
        /\ FromRound => timer.timerId = "null" /\ timer.st = "pending"
        /\ FromRound => Len(childs) = i + 1

C2_Witness ==
    /\ Settled /\ outcome.kind = "return" /\ FromRound
    /\ outcome.by < Len(proc)
    /\ \E k \in 1..Len(proc) : proc[k].st = "signalled" /\ k > outcome.by

C3_WitnessSingleLaunch ==
    Settled /\ outcome.kind = "throw" /\ outcome.err.name = "exec" /\ Len(proc) = 1

\* C4: a race rejected by a killed process or by the round's timeout makes
\* the function go on with the next round or the next drain iteration, and
\* the call never throws such an error.
C4_RetryableSwallowed ==
    [][/\ (pc = "await_round" /\ race.st = "rejected" /\ KilledOrTimedOut(race.err))
            => (pc' = "round" /\ i' = i + 1 /\ outcome' = NoOutcome)
       /\ (pc = "await_drain" /\ race.st = "rejected" /\ KilledOrTimedOut(race.err))
            => (pc' = "drain" /\ outcome' = NoOutcome)
       /\ outcome'.kind = "throw" => ~KilledOrTimedOut(outcome'.err)]_vars

C4_Witness ==
    /\ pc = "await_drain"
    /\ \E k \in 1..Len(proc) : proc[k].result = "killed"
    /\ \E k \in 1..Len(proc) : Live(k)

\* C5 as stated: when the first K attempts hang and attempt K+1 is the one
\* that succeeds, the call returns at most RETRY_INTV*(1 + ... + (K+1)) after
\* its start.
C5_ElapsedBoundAsStated ==
    (/\ Settled /\ outcome.kind = "return"
     /\ \A k \in 1..(outcome.by - 1) : proc[k].result \in {"none", "killed"}) =>
        now <= RETRY_INTV * SumTo(outcome.by)

\* C5 amended: when attempt K+1 exits with success no later than its own
\* round's timeout RETRY_INTV*(K+1) after its launch, the call returns its
\* result at most RETRY_INTV*(1 + ... + (K+1)) after its start.
C5_ElapsedBound ==
    \A w \in 1..Len(proc) :
        (Settled /\ proc[w].result = "ok"
                 /\ proc[w].exitedAt - proc[w].launchedAt <= RETRY_INTV * w) =>
            /\ outcome = [kind |-> "return", by |-> w, err |-> NoErr]
            /\ now <= RETRY_INTV * SumTo(w)

C5_Witness ==
    /\ Settled /\ outcome.kind = "return" /\ outcome.by >= 3
    /\ proc[outcome.by].exitedAt - proc[outcome.by].launchedAt = RETRY_INTV * outcome.by
    /\ \A k \in 1..(outcome.by - 1) : proc[k].result = "none"
    /\ now = RETRY_INTV * SumTo(outcome.by)

\* C6: the drain phase starts only after MAX_RETRIES launches, launches
\* nothing and arms no timer; it races exactly the attempts that are still
\* live, and the retries-exhausted error is thrown only when no attempt is
\* live.
C6_Drain ==
    /\ (pc \in {"drain", "await_drain"} \/ (pc = "round" /\ ~LoopCond(i))) =>
            /\ Len(childs) = MAX_RETRIES
            /\ i = MAX_RETRIES
            /\ timer.timerId = "null"
    /\ pc = "await_drain" =>
            /\ raced # {}
            /\ race.st = "pending" => raced = {k \in 1..Len(proc) : Live(k)}
    /\ outcome.err.name = "exhausted" =>
            /\ \A k \in 1..Len(proc) : ~Live(k)
            /\ Len(childs) = MAX_RETRIES
            /\ i = MAX_RETRIES

C6_Witness ==
    /\ Settled /\ outcome.err.name = "exhausted"
    /\ \A k \in 1..Len(proc) : proc[k].result = "killed"

C6_WitnessDrainReturn ==
    /\ Settled /\ outcome.kind = "return" /\ ~FromRound

\* C7: at most MAX_RETRIES attempts are launched, exactly one per round
\* started.
C7_LaunchCap ==
    /\ Len(childs) <= MAX_RETRIES
    /\ Len(childs) = IF pc = "round" THEN i
                     ELSE IF FromRound THEN i + 1 ELSE MAX_RETRIES

C7_Witness ==
    /\ Settled /\ Len(childs) = MAX_RETRIES
    /\ \E k \in 1..Len(proc) : proc[k].result = "killed"
    /\ \E k \in 1..Len(proc) : proc[k].result = "ok"

----------------------------------------------------------------------------
\* The modules on disk, as flow-parser parses them.  A module is
\* [errors, body]; body is the sequence of the children of the Program node.

NullDecl == [type |-> "null", name |-> "null"]

\* export type <name> = ...;   export interface <name> {...}
ExportDecl(declType, name) ==
    [type |-> "ExportNamedDeclaration", exportKind |-> "type",
     declaration |-> [type |-> declType, name |-> name],
     specifiers |-> <<>>, source |-> "null"]

\* export type {<local> as <exported>, ...} [from '<source>'];
ExportSpecs(specifiers, source) ==
    [type |-> "ExportNamedDeclaration", exportKind |-> "type",
     declaration |-> NullDecl, specifiers |-> specifiers, source |-> source]

ExpSpecifier(exported, local) ==
    [type |-> "ExportSpecifier", exported |-> exported, local |-> local]

\* export const <name> = ...;
ExportValue(name) ==
    [type |-> "ExportNamedDeclaration", exportKind |-> "value",
     declaration |-> [type |-> "VariableDeclaration", name |-> name],
     specifiers |-> <<>>, source |-> "null"]

\* import type {<imported> as <local>} from '...';
ImportType(imported, local) ==
    [type |-> "ImportDeclaration", importKind |-> "type",
     specifiers |-> <<[type |-> "ImportSpecifier", imported |-> imported, local |-> local]>>]

\* type <name> = ...;
LocalAlias(name) == [type |-> "TypeAlias", name |-> name]

EntryModules == {"main", "simple"}
ReexportTargets == {"m1", "nul", "cyc", "nf", "bad"}

Module(m) ==
    CASE m = "main" ->
            [errors |-> FALSE,
             body |-> << ImportType("L", "L2"),
                         LocalAlias("Loc"),
                         ExportDecl("TypeAlias", "A"),
                         ExportSpecs(<<ExpSpecifier("B", "Loc"), ExpSpecifier("C", "V")>>, "null"),
                         ExportSpecs(<<ExpSpecifier("D", "X")>>, reexp),
                         ExportDecl("InterfaceDeclaration", "I"),
                         ExportSpecs(<<ExpSpecifier("E", "L2")>>, "null"),
                         ExportValue("v") >>]
      [] m = "simple" ->
            [errors |-> FALSE,
             body |-> << ExportDecl("TypeAlias", "A"),
                         ExportDecl("InterfaceDeclaration", "I"),
                         ExportValue("v"),
                         ExportDecl("TypeAlias", "B") >>]
      [] m = "m1" ->
            [errors |-> FALSE,
             body |-> << ExportSpecs(<<ExpSpecifier("W", "W"), ExpSpecifier("X", "Y")>>, "m2") >>]
      [] m = "m2" ->
            [errors |-> FALSE,
             body |-> << ExportDecl("TypeAlias", "W"), ExportDecl("TypeAlias", "Y") >>]
      [] m = "nul" ->
            [errors |-> FALSE,
             body |-> << ExportSpecs(<<ExpSpecifier("X", "X")>>, "null") >>]
      [] m = "cyc" ->
            [errors |-> FALSE,
             body |-> << ExportSpecs(<<ExpSpecifier("X", "X")>>, "cyc") >>]
      [] m = "nf" ->
            [errors |-> FALSE, body |-> << ExportDecl("TypeAlias", "W") >>]
      [] m = "bad" ->
            [errors |-> TRUE, body |-> <<>>]

\* A position in a module's source: where the name is written.
Pos(m, name) == m \o ":" \o name

\* The positions type-at-pos is asked about
Positions == {Pos("main", "A"), Pos("main", "Loc"), Pos("main", "L"),
              Pos("simple", "A"), Pos("simple", "B"), Pos("m2", "Y")}

----------------------------------------------------------------------------
\* makeSchemaFlow88, makeSchemaFlow89, flowTypeByName

IsTypeExport(child) ==
    child.type = "ExportNamedDeclaration" /\ child.exportKind = "type"

\* searchLocalTypeDecls(ast): the local type names with the position of
\* their definition
RECURSIVE searchLocalTypeDecls(_, _)
searchLocalTypeDecls(m, body) ==
    IF body = <<>> THEN <<>>
    ELSE LET child == Head(body)
             rest == searchLocalTypeDecls(m, Tail(body))
             found ==
                IF child.type = "ImportDeclaration" /\ child.importKind = "type"
                THEN {<<sp.local, Pos(m, sp.imported)>> :
                        sp \in {child.specifiers[k] : k \in
                                 {n \in 1..Len(child.specifiers) :
                                    child.specifiers[n].type = "ImportSpecifier"}}}
                ELSE IF child.type = "TypeAlias"
                THEN {<<child.name, Pos(m, child.name)>>}
                ELSE {}
         IN \* a later declaration of a name overwrites an earlier one
            [n \in {f[1] : f \in found} \cup DOMAIN rest |->
                IF n \in DOMAIN rest THEN rest[n]
                ELSE (CHOOSE f \in found : f[1] = n)[2]]

\* localTypes[name], "null" when the name is absent
ImportInfo(localTypes, name) ==
    IF name \in DOMAIN localTypes THEN localTypes[name] ELSE "null"

NewJob(kind, name, local, source) ==
    [kind |-> kind, name |-> name, local |-> local, source |-> source,
     pc |-> "idle", mod |-> "none", sname |-> "none", depth |-> 0, pos |-> "none"]

\* for (let specifier of child.specifiers) jobs.push(processExportSpecifier...)
RECURSIVE SpecifierJobs(_, _)
SpecifierJobs(specifiers, source) ==
    IF specifiers = <<>> THEN <<>>
    ELSE (IF Head(specifiers).type # "ExportSpecifier" THEN <<>>
          ELSE <<NewJob("spec", Head(specifiers).exported, Head(specifiers).local, source)>>)
         \o SpecifierJobs(Tail(specifiers), source)

\* decl != null && decl.type === 'TypeAlias' && decl.id.type === 'Identifier'
IsAliasDecl(decl) == decl.type # "null" /\ decl.type = "TypeAlias"

\* The jobs array of makeSchemaFlow89
RECURSIVE MakeJobs(_)
MakeJobs(body) ==
    IF body = <<>> THEN <<>>
    ELSE LET child == Head(body)
         IN (IF IsTypeExport(child)
             THEN (IF IsAliasDecl(child.declaration)
                   THEN <<NewJob("alias", child.declaration.name,
                                 child.declaration.name, "null")>>
                   ELSE <<>>)
                  \o SpecifierJobs(child.specifiers, child.source)
             ELSE <<>>)
            \o MakeJobs(Tail(body))

\* The first specifier of the list that exports searchName, if any
RECURSIVE FindSpecifier(_, _)
FindSpecifier(specifiers, searchName) ==
    IF specifiers = <<>> THEN [type |-> "none"]
    ELSE IF Head(specifiers).type = "ExportSpecifier"
            /\ Head(specifiers).exported = searchName
    THEN Head(specifiers)
    ELSE FindSpecifier(Tail(specifiers), searchName)

\* The loop of flowTypeByName over ast.body: what the search for searchName
\* in module m comes to before its first await.
RECURSIVE ByNameScan(_, _, _, _)
ByNameScan(m, body, searchName, localTypes) ==
    IF body = <<>> THEN [kind |-> "throw", err |-> "NotFoundError"]
    ELSE LET child == Head(body)
             decl == child.declaration
             sp == FindSpecifier(child.specifiers, searchName)
         IN IF ~IsTypeExport(child)
            THEN ByNameScan(m, Tail(body), searchName, localTypes)
            ELSE IF IsAliasDecl(decl) /\ decl.name = searchName
            THEN [kind |-> "atpos", pos |-> Pos(m, decl.name)]
            ELSE IF sp.type = "none"
            THEN ByNameScan(m, Tail(body), searchName, localTypes)
            ELSE IF child.source # "null"
            THEN [kind |-> "findmod", source |-> child.source, local |-> sp.local]
            ELSE IF ImportInfo(localTypes, sp.local) = "null"
            THEN [kind |-> "null", name |-> sp.exported]
            ELSE [kind |-> "atpos", pos |-> ImportInfo(localTypes, sp.local)]

MaxRecDepth == 5

\* Mutant of DepthExceeded: one more level is followed.
DepthExceeded_late(recDepth) == recDepth > MaxRecDepth + 1

\* if (recDepth_ > 5) throw
DepthExceeded(recDepth) == recDepth > MaxRecDepth

\* flowTypeByName(path, searchName, recDepth_) up to its first await
flowTypeByName(m, searchName, recDepth) ==
    IF DepthExceeded(recDepth)
    THEN [kind |-> "throw", err |-> "RecursionLimitError"]
    ELSE IF Module(m).errors
    THEN [kind |-> "throw", err |-> "SyntaxError"]
    ELSE ByNameScan(m, Module(m).body, searchName,
                    searchLocalTypeDecls(m, Module(m).body))

\* Mutant of SkipWarning: the type is skipped without a word.
SkipWarning_silent(name, msg) == {}

\* console.warn('Skipping type ' + name + ': ' + msg)
SkipWarning(name, msg) == {[name |-> name, msg |-> msg]}

\* Mutant of Put: the value is written through a reference the entries share.
Put_shared(obj, key, value) == [k \in DOMAIN obj \cup {key} |-> value]

\* obj[key] = value
Put(obj, key, value) ==
    [k \in DOMAIN obj \cup {key} |-> IF k = key THEN value ELSE obj[k]]

\* `export type ${name} = ${res.src};` where res.src is the text at pos
FlowSrc(name, pos) == <<"export type", name, pos>>

\* Mutant of CatchCompile: every exception of parseDesc skips the type.
CatchCompile_swallow(c) == IF c.ok THEN "store" ELSE "skip"

\* try { schema = parseDesc(desc); ... } catch (exc) {
\*   if (exc instanceof UnsupportedTypeError) warn; else throw exc; }
CatchCompile(c) ==
    IF c.ok THEN "store"
    ELSE IF c.exc = "UnsupportedTypeError" THEN "skip"
    ELSE "throw"

\* async.eachLimit(jobs, 3, ...)
ConcurrencyLimit == 3

\* The body of a job up to its first await.  It gives the job and what it
\* warned.
JobPrefix(job) ==
    LET localTypes == searchLocalTypeDecls(entry, Module(entry).body)
    IN IF job.kind = "alias"
       THEN [job |-> [job EXCEPT !.pc = "atpos", !.pos = Pos(entry, job.name)],
             warns |-> {}]
       ELSE IF job.source # "null"
       THEN [job |-> [job EXCEPT !.pc = "findmod", !.mod = job.source,
                                 !.sname = job.local, !.depth = 0],
             warns |-> {}]
       ELSE IF ImportInfo(localTypes, job.local) = "null"
       THEN [job |-> [job EXCEPT !.pc = "returned"],
             warns |-> SkipWarning(job.name, "not a type export")]
       ELSE [job |-> [job EXCEPT !.pc = "atpos",
                                 !.pos = ImportInfo(localTypes, job.local)],
             warns |-> {}]

\* The jobs eachLimit starts when it may start up to n more: the jobs from
\* st.nextJob on, in order, each run up to its first await.
\* st = [jobs, nextJob, running, warnings]
StartJobs(st, n) ==
    LET started == st.nextJob .. (st.nextJob + n - 1)
    IN [jobs |-> [j \in 1..Len(st.jobs) |->
                    IF j \in started THEN JobPrefix(st.jobs[j]).job ELSE st.jobs[j]],
        nextJob |-> st.nextJob + n,
        running |-> st.running + n,
        warnings |-> st.warnings \cup UNION {JobPrefix(st.jobs[j]).warns : j \in started}]

\* Mutant of Replenish: every job is started at once.
Replenish_unbounded(st) == StartJobs(st, Len(st.jobs) - st.nextJob + 1)

\* eachLimit's replenish(): start jobs in order while fewer than the limit
\* are in progress and jobs are left.
Replenish(st) ==
    LET free == ConcurrencyLimit - st.running
        left == Len(st.jobs) - st.nextJob + 1
    IN StartJobs(st, IF free < left THEN free ELSE left)

AsmReturn == [kind |-> "return", err |-> "none"]
AsmThrow(err) == [kind |-> "throw", err |-> err]

\* makeSchemaFlow89 up to await async.eachLimit(...)
Start89 ==
    /\ apc = "start"
    /\ ver89
    /\ IF Module(entry).errors
       THEN /\ asmOutcome' = AsmThrow("SyntaxError")
            /\ apc' = "done"
            /\ UNCHANGED <<jobs, nextJob, running, warnings>>
       ELSE LET st == Replenish([jobs |-> MakeJobs(Module(entry).body), nextJob |-> 1,
                                 running |-> 0, warnings |-> warnings])
            IN /\ jobs' = st.jobs
               /\ nextJob' = st.nextJob
               /\ running' = st.running
               /\ warnings' = st.warnings
               /\ asmOutcome' = IF st.jobs = <<>> THEN AsmReturn ELSE asmOutcome
               /\ apc' = IF st.jobs = <<>> THEN "done" ELSE "jobs"
    /\ UNCHANGED <<validatorSrc, ver89, entry, reexp, answer, jsonSchema, flowSource>>
    /\ UNCHANGED <<retryVars, delayVars, compVars, cliVars>>

\* eachLimit's iterateeCallback for job j: the job settled with err ("none":
\* fulfilled); js and warns are the jobs and the warnings it leaves.
Finish(j, js, warns, err) ==
    IF err # "none"
    THEN /\ jobs' = js
         /\ running' = running - 1
         /\ nextJob' = nextJob
         /\ warnings' = warns
         /\ asmOutcome' = IF asmOutcome.kind = "none" THEN AsmThrow(err) ELSE asmOutcome
         /\ apc' = "done"
    ELSE IF asmOutcome.kind # "none"
    THEN /\ jobs' = js
         /\ running' = running - 1
         /\ nextJob' = nextJob
         /\ warnings' = warns
         /\ UNCHANGED <<asmOutcome, apc>>
    ELSE LET st == Replenish([jobs |-> js, nextJob |-> nextJob,
                              running |-> running - 1, warnings |-> warns])
         IN /\ jobs' = st.jobs
            /\ running' = st.running
            /\ nextJob' = st.nextJob
            /\ warnings' = st.warnings
            /\ asmOutcome' = IF st.running = 0 THEN AsmReturn ELSE asmOutcome
            /\ apc' = IF st.running = 0 THEN "done" ELSE apc

\* A job that returned without awaiting has its promise fulfilled in a
\* microtask, before any oracle call completes.
NoMicrotask == \A j \in 1..Len(jobs) : jobs[j].pc # "returned"

JobReturned(j) ==
    /\ j \in 1..Len(jobs)
    /\ jobs[j].pc = "returned"
    /\ Finish(j, [jobs EXCEPT ![j].pc = "done"], warnings, "none")
    /\ UNCHANGED <<validatorSrc, ver89, entry, reexp, answer, jsonSchema, flowSource>>
    /\ UNCHANGED <<retryVars, delayVars, compVars, cliVars>>

\* callFlowAutoRetry(['find-module', ...]) of job j settles; on success
\* flowTypeByName runs on the module found, up to its next await.  A search
\* that returns null makes processExportSpecifier fail on res.ast.
FindModuleDone(j, ok) ==
    /\ j \in 1..Len(jobs)
    /\ jobs[j].pc = "findmod"
    /\ NoMicrotask
    /\ LET job == jobs[j]
           r == flowTypeByName(job.mod, job.sname, job.depth)
       IN IF ~ok
          THEN Finish(j, [jobs EXCEPT ![j].pc = "failed"], warnings, "OracleError")
          ELSE IF r.kind = "throw"
          THEN Finish(j, [jobs EXCEPT ![j].pc = "failed"], warnings, r.err)
          ELSE IF r.kind = "null"
          THEN Finish(j, [jobs EXCEPT ![j].pc = "failed"],
                      warnings \cup SkipWarning(r.name, "not a type export"),
                      "TypeError")
          ELSE /\ jobs' = [jobs EXCEPT ![j] =
                            IF r.kind = "atpos"
                            THEN [job EXCEPT !.pc = "atpos", !.pos = r.pos]
                            ELSE [job EXCEPT !.mod = r.source, !.sname = r.local,
                                             !.depth = job.depth + 1]]
               /\ UNCHANGED <<nextJob, running, warnings, asmOutcome, apc>>
    /\ UNCHANGED <<validatorSrc, ver89, entry, reexp, answer, jsonSchema, flowSource>>
    /\ UNCHANGED <<retryVars, delayVars, compVars, cliVars>>

\* flowTypeAtPos of job j settles (res: the oracle failed, its output did not
\* parse, or it gave the descriptor at the position); then the job compiles
\* the descriptor and stores the schema, or skips the type, or fails.
AtPosDone(j, res) ==
    /\ j \in 1..Len(jobs)
    /\ jobs[j].pc = "atpos"
    /\ NoMicrotask
    /\ LET job == jobs[j]
           c == parseDesc(answer[job.pos])
       IN IF res # "ok"
          THEN /\ Finish(j, [jobs EXCEPT ![j].pc = "failed"], warnings,
                         IF res = "fail" THEN "OracleError" ELSE "SyntaxError")
               /\ UNCHANGED <<jsonSchema, flowSource>>
          ELSE IF CatchCompile(c) = "store"
          THEN /\ jsonSchema' = Put(jsonSchema, job.name, c.schema)
               /\ flowSource' = Put(flowSource, job.name, FlowSrc(job.name, job.pos))
               /\ Finish(j, [jobs EXCEPT ![j].pc = "done"], warnings, "none")
          ELSE IF CatchCompile(c) = "skip"
          THEN /\ Finish(j, [jobs EXCEPT ![j].pc = "done"],
                         warnings \cup SkipWarning(job.name, c.msg), "none")
               /\ UNCHANGED <<jsonSchema, flowSource>>
          ELSE /\ Finish(j, [jobs EXCEPT ![j].pc = "failed"], warnings, c.exc)
               /\ UNCHANGED <<jsonSchema, flowSource>>
    /\ UNCHANGED <<validatorSrc, ver89, entry, reexp, answer>>
    /\ UNCHANGED <<retryVars, delayVars, compVars, cliVars>>

\* makeSchemaFlow88 up to await callFlow(['gen-flow-files', ...])
Start88 ==
    /\ apc = "start"
    /\ ~ver89
    /\ apc' = "gen88"
    /\ UNCHANGED <<validatorSrc, ver89, entry, reexp, answer, jobs, nextJob, running,
                   jsonSchema, flowSource, warnings, asmOutcome>>
    /\ UNCHANGED <<retryVars, delayVars, compVars, cliVars>>

\* The loop of makeSchemaFlow88 over ast.body.
\* st = [js, fs, warns, err]; reading decl.type of a null declaration fails.
RECURSIVE Loop88(_, _)
Loop88(body, st) ==
    IF body = <<>> \/ st.err # "none" THEN st
    ELSE LET child == Head(body)
             decl == child.declaration
             c == parseDesc(answer[Pos(entry, decl.name)])
         IN IF ~IsTypeExport(child) THEN Loop88(Tail(body), st)
            ELSE IF decl.type = "null" THEN [st EXCEPT !.err = "TypeError"]
            ELSE IF decl.type # "TypeAlias" THEN Loop88(Tail(body), st)
            ELSE IF CatchCompile(c) = "store"
            THEN Loop88(Tail(body),
                        [st EXCEPT !.js = Put(@, decl.name, c.schema),
                                   !.fs = Put(@, decl.name, <<"slice", decl.name>>)])
            ELSE IF CatchCompile(c) = "skip"
            THEN Loop88(Tail(body),
                        [st EXCEPT !.warns = @ \cup SkipWarning(decl.name, c.msg)])
            ELSE [st EXCEPT !.err = c.exc]

\* gen-flow-files settles (res: the oracle failed, its output did not parse,
\* or it parsed); then the rest of makeSchemaFlow88 runs.
Gen88Done(res) ==
    /\ apc = "gen88"
    /\ IF res # "ok"
       THEN /\ asmOutcome' = AsmThrow(IF res = "fail" THEN "OracleError" ELSE "SyntaxError")
            /\ UNCHANGED <<jsonSchema, flowSource, warnings>>
       ELSE LET st == Loop88(Module(entry).body,
                             [js |-> jsonSchema, fs |-> flowSource,
                              warns |-> warnings, err |-> "none"])
            IN /\ jsonSchema' = st.js
               /\ flowSource' = st.fs
               /\ warnings' = st.warns
               /\ asmOutcome' = IF st.err = "none" THEN AsmReturn ELSE AsmThrow(st.err)
    /\ apc' = "done"
    /\ UNCHANGED <<validatorSrc, ver89, entry, reexp, answer, jobs, nextJob, running>>
    /\ UNCHANGED <<retryVars, delayVars, compVars, cliVars>>

\* Object.keys(obj): the keys of obj as an array
RECURSIVE ObjectKeys(_)
ObjectKeys(obj) ==
    IF DOMAIN obj = {} THEN <<>>
    ELSE LET key == CHOOSE k \in DOMAIN obj : TRUE
         IN <<key>> \o ObjectKeys([k \in DOMAIN obj \ {key} |-> obj[k]])

\* Mutant of NoTypes: an empty map is let through.
NoTypes_never(typeNames) == FALSE

\* typeNames.length === 0
NoTypes(typeNames) == Len(typeNames) = 0

\* makeValidatorSrc after await makeSchema(srcPath): a failure of the
\* assembler is its failure; with the maps it sorts the names, fails when
\* there is none and otherwise builds the validator source from the sources
\* of the types in the order of the sorted names.
makeValidatorSrc ==
    /\ asmOutcome.kind # "none"
    /\ validatorSrc = NoValidatorSrc
    /\ validatorSrc' =
          IF asmOutcome.kind = "throw"
          THEN [NoValidatorSrc EXCEPT !.kind = "throw", !.err = asmOutcome.err]
          ELSE LET typeNames == SortKeys(ObjectKeys(jsonSchema))
               IN IF NoTypes(typeNames)
                  THEN [NoValidatorSrc EXCEPT !.kind = "throw",
                                              !.err = "no types to process"]
                  ELSE [kind |-> "return", err |-> "none", typeNames |-> typeNames,
                        defs |-> [k \in 1..Len(typeNames) |-> flowSource[typeNames[k]]]]
    /\ UNCHANGED <<ver89, entry, reexp, answer, apc, jobs, nextJob, running,
                   jsonSchema, flowSource, warnings, asmOutcome>>
    /\ UNCHANGED <<retryVars, delayVars, compVars, cliVars>>

\* The descriptors type-at-pos answers with in the model
DNestedVoid ==
    DObject(<<DProp("b", DString, FALSE),
              DProp("a", [type |-> "NullableTypeAnnotation", typeAnnotation |-> DVoid], TRUE)>>,
            TRUE)
DShape == DObject(<<DProp("b", DString, FALSE), DProp("a", DNumber, TRUE)>>, TRUE)
AnswerDescs == {DShape, DVoid, DNestedVoid, DFunction}

\* The positions a run on entry module e can ask about
PositionsOf(e, r) ==
    IF e = "main"
    THEN {Pos("main", "A"), Pos("main", "Loc"), Pos("main", "L")}
         \cup (IF r = "m1" THEN {Pos("m2", "Y")} ELSE {})
    ELSE {Pos("simple", "A"), Pos("simple", "B")}

AsmStart ==
    /\ ver89 \in BOOLEAN
    /\ entry \in EntryModules
    /\ reexp \in IF entry = "main" THEN ReexportTargets ELSE {"m1"}
    /\ answer \in [PositionsOf(entry, reexp) -> AnswerDescs]
    /\ apc = "start"
    /\ jobs = <<>>
    /\ nextJob = 1
    /\ running = 0
    /\ jsonSchema = <<>>
    /\ flowSource = <<>>
    /\ warnings = {}
    /\ asmOutcome = [kind |-> "none", err |-> "none"]
    /\ validatorSrc = NoValidatorSrc

MaxJobs == 5

NextAsm ==
    \/ Start89
    \/ Start88
    \/ \E res \in {"ok", "fail", "syntax"} : Gen88Done(res)
    \/ \E j \in 1..MaxJobs : JobReturned(j)
    \/ \E j \in 1..MaxJobs, ok \in BOOLEAN : FindModuleDone(j, ok)
    \/ \E j \in 1..MaxJobs, res \in {"ok", "fail", "syntax"} : AtPosDone(j, res)
    \/ makeValidatorSrc

InitAsm == RetryStart /\ AsmStart /\ DelayIdle /\ CompIdle /\ CliIdle

SpecAsm == InitAsm /\ [][NextAsm]_vars

\* makeSchema(path) on one of the entry modules: `flow status` fails with
\* an error other than exit code 2 and makeSchema throws it, or the version
\* of flow decides between makeSchemaFlow88 and makeSchemaFlow89.  The
\* modules on disk and the answers flow will give are fixed from here on;
\* each answer is a type that compiles or a type that is skipped.
MakeDescs == {DShape, DNestedVoid}

makeSchema ==
    /\ apc = "off"
    /\ \E statusOk \in BOOLEAN, v \in BOOLEAN, e \in EntryModules :
         \E r \in (IF e = "main" THEN ReexportTargets ELSE {"m1"}) :
           \E a \in [PositionsOf(e, r) -> MakeDescs] :
              IF statusOk
              THEN /\ ver89' = v /\ entry' = e /\ reexp' = r /\ answer' = a
                   /\ apc' = "start"
                   /\ UNCHANGED asmOutcome
              ELSE /\ asmOutcome' = AsmThrow("OracleError")
                   /\ apc' = "done"
                   /\ UNCHANGED <<ver89, entry, reexp, answer>>
    /\ UNCHANGED <<jobs, nextJob, running, jsonSchema, flowSource, warnings, validatorSrc>>
    /\ UNCHANGED <<retryVars, delayVars, compVars, cliVars>>

NextMake == makeSchema \/ NextAsm

InitMake == RetryStart /\ AsmIdle /\ DelayIdle /\ CompIdle /\ CliIdle

\* Every oracle call settles (callFlowAutoRetry returns or throws after at
\* most MAX_RETRIES rounds and the drain) and the event loop runs the
\* callbacks that are ready.
SpecMakeFair == InitMake /\ [][NextMake]_vars /\ WF_vars(NextMake)

----------------------------------------------------------------------------
\* Claims about makeSchemaFlow88 / makeSchemaFlow89

\* The position at which the type behind each exported name of the entry
\* module is defined, for the names that resolve to a definition.
DefinedAt ==
    IF entry = "main"
    THEN [n \in {"A", "B", "E"} \cup (IF reexp = "m1" THEN {"D"} ELSE {}) |->
            CASE n = "A" -> "main:A"
              [] n = "B" -> "main:Loc"
              [] n = "E" -> "main:L"
              [] n = "D" -> "m2:Y"]
    ELSE [n \in {"A", "B"} |-> IF n = "A" THEN "simple:A" ELSE "simple:B"]

\* The names the entry module exports with an export type alias declaration
\* or an export specifier
ExportedTypeNames == IF entry = "main" THEN {"A", "B", "C", "D", "E"} ELSE {"A", "B"}

\* The descriptors with a construct that has no JSON schema, at the top or
\* nested; the descriptor of a kind parseDesc does not know
UnsupportedDescs == {DVoid, DNestedVoid}
UnknownDescs == {DFunction}

AsmReturned == asmOutcome.kind = "return"

\* C9: a type whose descriptor holds an unsupported construct, at the top or
\* nested, never gets an entry in either map; a run that returns has an
\* entry in both maps for every other resolved type; and a run in which
\* anything else failed (an unknown kind of descriptor, a failed job) does
\* not return but throws.
C9_UnsupportedSkipsOnlyThatType ==
    /\ \A n \in DOMAIN DefinedAt :
          answer[DefinedAt[n]] \in UnsupportedDescs =>
              n \notin DOMAIN jsonSchema /\ n \notin DOMAIN flowSource
    /\ AsmReturned =>
          \A n \in DOMAIN DefinedAt :
              /\ answer[DefinedAt[n]] \notin UnknownDescs
              /\ answer[DefinedAt[n]] \notin UnsupportedDescs =>
                    n \in DOMAIN jsonSchema /\ n \in DOMAIN flowSource
    /\ (\E j \in 1..Len(jobs) : jobs[j].pc = "failed") => asmOutcome.kind = "throw"
    /\ asmOutcome.kind = "throw" => asmOutcome.err # "UnsupportedTypeError"

C9_Witness ==
    /\ AsmReturned /\ ver89 /\ entry = "main"
    /\ answer["main:A"] = DNestedVoid /\ "A" \notin DOMAIN jsonSchema
    /\ answer["main:L"] = DVoid /\ "E" \notin DOMAIN jsonSchema
    /\ {"B", "D"} \subseteq DOMAIN jsonSchema

C9_WitnessFatal ==
    /\ asmOutcome = AsmThrow("Error") /\ ver89 /\ entry = "main"
    /\ \E j \in 1..Len(jobs) : jobs[j].pc = "idle"

C10_Witness88 ==
    /\ AsmReturned /\ ~ver89
    /\ "A" \notin DOMAIN jsonSchema /\ "B" \in DOMAIN jsonSchema

\* C11: makeValidatorSrc throws 'no types to process' and gives no validator
\* source exactly when the assembler returned an empty schema map; with a
\* type in the map it returns a source and does not throw that error.
C11_NoTypesError ==
    (validatorSrc.kind # "none" /\ AsmReturned) =>
        /\ DOMAIN jsonSchema = {} =>
              /\ validatorSrc.kind = "throw"
              /\ validatorSrc.err = "no types to process"
              /\ validatorSrc.defs = <<>>
        /\ DOMAIN jsonSchema # {} =>
              /\ validatorSrc.kind = "return"
              /\ validatorSrc.err = "none"
              /\ Len(validatorSrc.defs) = Cardinality(DOMAIN jsonSchema)

C11_Witness ==
    /\ AsmReturned /\ ver89 /\ entry = "main"
    /\ DOMAIN jsonSchema = {}
    /\ warnings # {}
    /\ validatorSrc.err = "no types to process"

C11_WitnessSource ==
    /\ AsmReturned /\ validatorSrc.kind = "return"
    /\ Len(validatorSrc.typeNames) >= 2

\* The jobs makeSchemaFlow89 has started and that have not settled
JobsInProgress == {j \in 1..Len(jobs) : jobs[j].pc \in {"atpos", "findmod", "returned"}}
JobsStarted == {j \in 1..Len(jobs) : jobs[j].pc # "idle"}
SomeJobFailed == \E j \in 1..Len(jobs) : jobs[j].pc = "failed"

\* C12: at every moment at most 3 jobs of makeSchemaFlow89 are in progress
\* (and eachLimit's count of running jobs is their number), and every run in
\* which no job fails comes to a state where every job has been started.
C12_ConcurrencyLimit ==
    /\ [](Cardinality(JobsInProgress) <= 3 /\ running = Cardinality(JobsInProgress))
    /\ <>(\/ SomeJobFailed
          \/ asmOutcome.kind = "throw"
          \/ apc \in {"jobs", "done"} /\ JobsStarted = 1..Len(jobs))

C12_Witness ==
    /\ Len(jobs) = 5
    /\ Cardinality(JobsInProgress) = 3
    /\ jobs[1].pc = "atpos" /\ jobs[2].pc = "done" /\ jobs[3].pc = "done"
    /\ jobs[4].pc = "findmod" /\ jobs[5].pc = "atpos"
    /\ ~SomeJobFailed

\* The maps a run of makeSchemaFlow89 on the entry module must give, from the
\* exported names and the oracle's answers alone
CompiledNames == {n \in DOMAIN DefinedAt : parseDesc(answer[DefinedAt[n]]).ok}
ExpectedSchema == [n \in CompiledNames |-> parseDesc(answer[DefinedAt[n]]).schema]
ExpectedSource == [n \in CompiledNames |-> FlowSrc(n, DefinedAt[n])]

\* Job j goes from waiting for its type to done in this step.
JobStores(j) == jobs[j].pc = "atpos" /\ jobs'[j].pc = "done"

\* C13: whatever the order in which the jobs of makeSchemaFlow89 complete,
\* the maps it returns are the ones the exported names and the oracle's
\* answers determine, the validator source lists the types in the order of
\* their sorted names, and a step writes an entry of either map only for the
\* exported name of the job that completes in it, never touching an entry
\* that exists.
C13_OrderIndependent ==
    /\ []((AsmReturned /\ ver89) =>
            /\ jsonSchema = ExpectedSchema
            /\ flowSource = ExpectedSource
            /\ validatorSrc.kind = "return" =>
                  /\ Len(validatorSrc.typeNames) = Cardinality(CompiledNames)
                  /\ \A k \in 1..Len(validatorSrc.typeNames) :
                        validatorSrc.defs[k] = ExpectedSource[validatorSrc.typeNames[k]]
                  /\ \A k \in 1..(Len(validatorSrc.typeNames) - 1) :
                        KeyRank(validatorSrc.typeNames[k]) < KeyRank(validatorSrc.typeNames[k + 1]))
    /\ [][ver89 =>
            /\ DOMAIN jsonSchema' = DOMAIN flowSource'
            /\ \A n \in DOMAIN jsonSchema :
                  /\ n \in DOMAIN jsonSchema'
                  /\ jsonSchema'[n] = jsonSchema[n]
                  /\ flowSource'[n] = flowSource[n]
            /\ \A n \in DOMAIN jsonSchema' \ DOMAIN jsonSchema :
                  \E j \in 1..Len(jobs) : jobs[j].name = n /\ JobStores(j)]_vars

C13_Witness ==
    /\ ver89 /\ entry = "main" /\ reexp = "m1" /\ Len(jobs) = 5
    /\ jobs[1].pc = "atpos" /\ jobs[2].pc = "atpos"
    /\ DOMAIN jsonSchema = {"D", "E"}
    /\ \A n \in DOMAIN DefinedAt : answer[DefinedAt[n]] = DShape

\* Job j waits for find-module before the call of flowTypeByName whose
\* recursion depth is greater than 5.
TooDeep(j) == jobs[j].pc = "findmod" /\ jobs[j].depth > 5

\* C14: the search of flowTypeByName never runs at a recursion depth greater
\* than 5: the call at depth 6 fails with the recursion-limit error and
\* follows no further re-export; the recursion-limit error comes from such a
\* call only; a run over the cyclic re-export never returns maps; and every
\* run comes to an end with no job left in progress.
C14_RecursionBounded ==
    /\ [](/\ \A j \in 1..Len(jobs) : jobs[j].depth <= 6
          /\ (ver89 /\ entry = "main" /\ reexp = "cyc") => asmOutcome.kind # "return"
          /\ asmOutcome.err = "RecursionLimitError" =>
                \E j \in 1..Len(jobs) : jobs[j].pc = "failed" /\ jobs[j].depth = 6)
    /\ [][\A j \in 1..Len(jobs) :
            (TooDeep(j) /\ jobs'[j] # jobs[j]) =>
                /\ jobs'[j] = [jobs[j] EXCEPT !.pc = "failed"]
                /\ asmOutcome'.kind = "throw"
                /\ asmOutcome.kind = "none" =>
                      asmOutcome'.err \in {"RecursionLimitError", "OracleError"}]_vars
    /\ <>(asmOutcome.kind # "none" /\ JobsInProgress = {})

C14_Witness ==
    /\ ver89 /\ entry = "main" /\ reexp = "cyc"
    /\ asmOutcome = AsmThrow("RecursionLimitError")
    /\ Len(jobs) = 5 /\ jobs[4].pc = "failed" /\ jobs[4].depth = 6
    /\ JobsInProgress = {}
    /\ validatorSrc.err = "RecursionLimitError"

----------------------------------------------------------------------------
\* sleep() on its own: one delay, the clock, and a caller that cancels

MaxClock == 3
MaxCancels == 3

\* The durations and the values sleep is called with; "undefined" is the
\* value of a parameter that was not passed.
Durations == {1, 2}
SleepVals == {"undefined", "elapsed"}

\* What cancel is called with: ABANDON, nothing, or a value.
CancelArgs == {ABANDON, "undefined", "early", "elapsed"}

\* const t = sleep(msec, val)
InitSleep ==
    /\ RetryStart /\ AsmIdle /\ CompIdle /\ CliIdle
    /\ clock = 0
    /\ cancels = <<>>
    /\ \E msec \in Durations, val \in SleepVals : delay = sleep(msec, val, 0)

\* Time passes.  Node runs a timer's callback at its due time or later.
clockTick ==
    /\ clock < MaxClock
    /\ clock' = clock + 1
    /\ UNCHANGED <<delay, cancels>>
    /\ UNCHANGED <<retryVars, asmVars, compVars, cliVars>>

\* The setTimeout callback runs; clearTimeout has taken it away if it ran.
sleepTimeout ==
    /\ delay.timerId # "null"
    /\ clock >= delay.due
    /\ delay' = sleepElapse(delay)
    /\ UNCHANGED <<clock, cancels>>
    /\ UNCHANGED <<retryVars, asmVars, compVars, cliVars>>

\* t.cancel(resolveWith)
cancelCall(resolveWith) ==
    /\ Len(cancels) < MaxCancels
    /\ delay' = sleepCancel(delay, resolveWith)
    /\ cancels' = Append(cancels, [resolveWith |-> resolveWith,
                                   armed |-> delay.timerId # "null"])
    /\ UNCHANGED clock
    /\ UNCHANGED <<retryVars, asmVars, compVars, cliVars>>

NextSleep ==
    \/ clockTick
    \/ sleepTimeout
    \/ \E resolveWith \in CancelArgs : cancelCall(resolveWith)

SpecSleep == InitSleep /\ [][NextSleep]_vars

----------------------------------------------------------------------------
\* Claims about sleep

\* The step is a call of cancel with rv.
IsCancelOf(rv) == cancels' = Append(cancels, [resolveWith |-> rv, armed |-> delay.timerId # "null"])
Provided(rv) == rv # "undefined"

\* C15 as stated: a cancel before the delay has elapsed with a resolveValue
\* that is provided and is not ABANDON stops the timer and resolves the
\* promise with that value; and a cancel resolves the promise only when its
\* resolveValue is provided and is not ABANDON.
C15_EarlyResolveOnlyProvided ==
    [][\A rv \in CancelArgs :
          (IsCancelOf(rv) /\ delay.timerId # "null") =>
              /\ (Provided(rv) /\ rv # ABANDON) =>
                    delay' = [delay EXCEPT !.timerId = "null", !.st = "resolved", !.res = rv]
              /\ delay'.st = "resolved" => (Provided(rv) /\ rv # ABANDON)]_vars

\* C16: once cancel has been called with ABANDON while the timer was armed,
\* the timer is stopped and the promise stays pending, whatever happens
\* later.
C16_AbandonNeverResolves ==
    \A k \in 1..Len(cancels) :
        (cancels[k].armed /\ cancels[k].resolveWith = ABANDON) =>
            /\ delay.timerId = "null"
            /\ delay.st = "pending"
            /\ delay.res = "none"

C16_Witness ==
    /\ Len(cancels) = 3
    /\ cancels[1].armed /\ cancels[1].resolveWith = ABANDON
    /\ cancels[2].resolveWith = "early" /\ cancels[3].resolveWith = "undefined"
    /\ clock > delay.due
    /\ delay.st = "pending"

\* C17: a call of cancel on a delay whose timer is no longer armed, because
\* of an earlier cancel or because the delay has elapsed, changes nothing of
\* the promise, whatever it is called with.
C17_CancelIdempotent ==
    [][\A rv \in CancelArgs :
          (IsCancelOf(rv) /\ delay.timerId = "null") => delay' = delay]_vars

C17_Witness ==
    /\ Len(cancels) = 2
    /\ cancels[1].armed /\ cancels[1].resolveWith = "early"
    /\ ~cancels[2].armed /\ cancels[2].resolveWith = "elapsed"
    /\ delay.st = "resolved" /\ delay.res = "early"

C17_WitnessElapsed ==
    /\ Len(cancels) = 1
    /\ ~cancels[1].armed /\ cancels[1].resolveWith = "early"
    /\ delay.st = "resolved" /\ delay.res = delay.val

----------------------------------------------------------------------------
\* parseDesc on its own: a type descriptor and the calls made on it

\* More descriptors
DBoolean == [type |-> "BooleanTypeAnnotation"]
DNull == [type |-> "NullLiteralTypeAnnotation"]
DAny == [type |-> "AnyTypeAnnotation"]
DLiteral(kind, value) == [type |-> kind, value |-> value]
DNullable(t) == [type |-> "NullableTypeAnnotation", typeAnnotation |-> t]
DTuple(types) == [type |-> "TupleTypeAnnotation", types |-> types]
DUnion(types) == [type |-> "UnionTypeAnnotation", types |-> types]
DIndexed(props, valueType) ==
    [type |-> "ObjectTypeAnnotation", callProperties |-> <<>>,
     indexers |-> <<[value |-> valueType]>>, properties |-> props, exact |-> FALSE]
DCallable(props) ==
    [type |-> "ObjectTypeAnnotation", callProperties |-> <<[type |-> "ObjectTypeCallProperty"]>>,
     indexers |-> <<>>, properties |-> props, exact |-> FALSE]

MaxProps == 3
MaxCalls == 2

\* The property names of the object shapes, and the shapes with up to
\* MaxProps properties in every order, a name possibly more than once
PropKeys == {"c", "a", "b", "B"}
PropLists ==
    UNION {{[k \in 1..n |-> DProp(keys[k], DString, opts[k])] :
              keys \in [1..n -> PropKeys], opts \in [1..n -> BOOLEAN]} : n \in 0..MaxProps}
PlainShapes == {DObject(props, exact) : props \in PropLists, exact \in BOOLEAN}

LeafDescs ==
    {DString, DNumber, DBoolean, DNull, DAny, DVoid, DFunction,
     DLiteral("StringLiteralTypeAnnotation", "s:a"),
     DLiteral("NumberLiteralTypeAnnotation", "n:1"),
     DLiteral("BooleanLiteralTypeAnnotation", "b:true")}

\* Shapes that nest descriptors in their properties
NestingShapes ==
    {DObject(<<DProp("b", inner, FALSE), DProp("a", DNullable(inner), TRUE)>>, exact) :
        inner \in {DNumber, DVoid, DShape, DUnion(<<DString, DNull>>)}, exact \in BOOLEAN}

CompositeDescs ==
    {DNullable(t) : t \in LeafDescs \cup {DShape, DNestedVoid}}
    \cup {DTuple(<<t, DString>>) : t \in LeafDescs \cup {DShape}}
    \cup {DTuple(<<>>), DUnion(<<DShape, DNull>>), DUnion(<<DString, DVoid>>),
          DUnion(<<DLiteral("NumberLiteralTypeAnnotation", "n:1"),
                   DLiteral("StringLiteralTypeAnnotation", "s:a")>>)}
    \cup {DGeneric(name, <<t>>) :
            name \in {"Array", "$Exact", "Map"},
            t \in {DString, DVoid, DShape, DObject(<<DProp("a", DString, FALSE)>>, FALSE),
                   DIndexed(<<>>, DNumber), DUnion(<<DShape, DNull>>)}}
    \cup {DGeneric("$Exact", <<DGeneric("Array", <<DObject(<<>>, FALSE)>>)>>)}
    \cup {DIndexed(<<>>, t) : t \in {DString, DVoid, DShape}}
    \cup {DIndexed(<<DProp("a", DString, FALSE)>>, DString),
          DCallable(<<>>), DCallable(<<DProp("a", DString, FALSE)>>)}

\* Shapes with an indexer and named properties, some with a call property
MixedShapes ==
    {[DIndexed(props, v) EXCEPT !.exact = exact, !.callProperties = calls] :
        props \in {<<DProp("a", DString, FALSE)>>, <<DProp("a", DVoid, TRUE)>>,
                   <<DProp("b", DNumber, TRUE), DProp("a", DShape, FALSE)>>},
        v \in {DString, DVoid, DShape},
        exact \in BOOLEAN,
        calls \in {<<>>, <<[type |-> "ObjectTypeCallProperty"]>>}}

TreeDescs == LeafDescs \cup PlainShapes \cup NestingShapes \cup CompositeDescs \cup MixedShapes

InitCompile ==
    /\ RetryStart /\ AsmIdle /\ DelayIdle /\ CliIdle
    /\ tree \in TreeDescs
    /\ frags = <<>>

\* parseDesc(tree) is called; it reads its argument and writes nothing but
\* the objects it creates.
compile ==
    /\ Len(frags) < MaxCalls
    /\ frags' = Append(frags, parseDesc(tree))
    /\ UNCHANGED tree
    /\ UNCHANGED <<retryVars, asmVars, delayVars, cliVars>>

NextCompile == compile

SpecCompile == InitCompile /\ [][NextCompile]_vars

----------------------------------------------------------------------------
\* Claims about parseDesc

\* A tree built only from the variants parseDesc has a schema for
RECURSIVE Supported(_)
Supported(t) ==
    CASE t.type \in {"StringLiteralTypeAnnotation", "NumberLiteralTypeAnnotation",
                     "BooleanLiteralTypeAnnotation", "NullLiteralTypeAnnotation",
                     "StringTypeAnnotation", "NumberTypeAnnotation",
                     "BooleanTypeAnnotation", "AnyTypeAnnotation"} -> TRUE
      [] t.type = "NullableTypeAnnotation" -> Supported(t.typeAnnotation)
      [] t.type = "ObjectTypeAnnotation" ->
            /\ Len(t.callProperties) = 0
            /\ IF Len(t.indexers) > 0
               THEN Len(t.properties) = 0 /\ Supported(t.indexers[1].value)
               ELSE \A k \in 1..Len(t.properties) : Supported(t.properties[k].value)
      [] t.type \in {"TupleTypeAnnotation", "UnionTypeAnnotation"} ->
            \A k \in 1..Len(t.types) : Supported(t.types[k])
      [] t.type = "GenericTypeAnnotation" ->
            /\ t.name \in {"Array", "$Exact"}
            /\ Len(t.params) = 1
            /\ Supported(t.params[1])
      [] OTHER -> FALSE

\* An object shape without call signature and without indexer
IsPlainShape(t) ==
    /\ t.type = "ObjectTypeAnnotation"
    /\ Len(t.callProperties) = 0
    /\ Len(t.indexers) = 0

\* The names of a sequence in the order of their first occurrences
RECURSIVE FirstOccurrences(_)
FirstOccurrences(names) ==
    IF names = <<>> THEN <<>>
    ELSE LET init == FirstOccurrences(SubSeq(names, 1, Len(names) - 1))
             last == names[Len(names)]
         IN IF \E k \in 1..Len(init) : init[k] = last THEN init ELSE Append(init, last)

C19_ExactAdditionalProperties ==
    \A k \in 1..Len(frags) :
        (IsPlainShape(tree) /\ frags[k].ok) =>
            IF tree.exact
            THEN /\ "additionalProperties" \in DOMAIN frags[k].schema
                 /\ frags[k].schema.additionalProperties = FALSE
            ELSE "additionalProperties" \notin DOMAIN frags[k].schema

C19_Witness ==
    /\ Len(frags) = 1
    /\ IsPlainShape(tree) /\ tree.exact /\ Len(tree.properties) = 2
    /\ frags[1].ok
    /\ frags[1].schema.additionalProperties = FALSE

C19_WitnessInexact ==
    /\ Len(frags) = 1
    /\ IsPlainShape(tree) /\ ~tree.exact /\ Len(tree.properties) = 2
    /\ frags[1].ok
    /\ DOMAIN frags[1].schema = {"type", "properties", "required"}

\* C20: the required list of the fragment of a plain object shape holds
\* exactly the names of the properties that are not optional, once for each
\* such property, in the sorted order of the names whatever the order of
\* declaration, and the keys of properties are the names in the order of
\* declaration.
C20_RequiredSorted ==
    \A n \in 1..Len(frags) :
        (IsPlainShape(tree) /\ frags[n].ok) =>
            LET props == tree.properties
                required == frags[n].schema.required
                properties == frags[n].schema.properties
                mandatory == {k \in 1..Len(props) : props[k].optional # TRUE}
            IN /\ {required[k] : k \in 1..Len(required)} = {props[k].key : k \in mandatory}
               /\ Len(required) = Cardinality(mandatory)
               /\ \A k \in 1..(Len(required) - 1) :
                     KeyRank(required[k]) <= KeyRank(required[k + 1])
               /\ [k \in 1..Len(properties) |-> properties[k].key]
                     = FirstOccurrences([k \in 1..Len(props) |-> props[k].key])

C20_Witness ==
    /\ Len(frags) = 1
    /\ tree = DObject(<<DProp("c", DString, TRUE), DProp("b", DString, FALSE),
                        DProp("a", DString, FALSE)>>, FALSE)
    /\ frags[1].schema.required = <<"a", "b">>
    /\ [k \in 1..3 |-> frags[1].schema.properties[k].key] = <<"c", "b", "a">>

C20_WitnessUpperCase ==
    /\ Len(frags) = 1
    /\ tree = DObject(<<DProp("a", DString, FALSE), DProp("B", DString, FALSE)>>, TRUE)
    /\ frags[1].schema.required = <<"B", "a">>

\* Generic('$Exact', [T])
IsExactOf(t) == t.type = "GenericTypeAnnotation" /\ t.name = "$Exact" /\ Len(t.params) = 1

\* C21: the fragment of $Exact<T> is the fragment of T with
\* additionalProperties false and every other keyword as it is when the
\* fragment of T has type 'object', also for a T that is an inexact shape,
\* and the fragment of T itself when it has not.
C21_ExactGeneric ==
    \A n \in 1..Len(frags) :
        IsExactOf(tree) =>
            LET inner == parseDesc(tree.params[1])
            IN IF ~inner.ok THEN frags[n] = inner
               ELSE /\ frags[n].ok
                    /\ IF "type" \in DOMAIN inner.schema /\ inner.schema.type = "object"
                       THEN /\ DOMAIN frags[n].schema
                                 = DOMAIN inner.schema \cup {"additionalProperties"}
                            /\ frags[n].schema.additionalProperties = FALSE
                            /\ \A kw \in DOMAIN inner.schema \ {"additionalProperties"} :
                                  frags[n].schema[kw] = inner.schema[kw]
                       ELSE frags[n].schema = inner.schema

C21_Witness ==
    /\ Len(frags) = 1
    /\ tree = DGeneric("$Exact", <<DObject(<<DProp("a", DString, FALSE)>>, FALSE)>>)
    /\ "additionalProperties" \notin DOMAIN parseDesc(tree.params[1]).schema
    /\ frags[1].schema.additionalProperties = FALSE
    /\ frags[1].schema.required = <<"a">>

C21_WitnessNotObject ==
    /\ Len(frags) = 1
    /\ tree = DGeneric("$Exact", <<DGeneric("Array", <<DObject(<<>>, FALSE)>>)>>)
    /\ frags[1].ok
    /\ DOMAIN frags[1].schema = {"type", "items"}

\* An object shape with an indexer and at least one named property
IsMixedShape(t) ==
    t.type = "ObjectTypeAnnotation" /\ Len(t.indexers) # 0 /\ Len(t.properties) > 0

\* C22: compiling an object shape that has an indexer and a named property
\* throws UnsupportedTypeError: no fragment is returned, neither the one of
\* the properties nor the one of the indexer.
C22_MixedShapeUnsupported ==
    \A n \in 1..Len(frags) :
        IsMixedShape(tree) => ~frags[n].ok /\ frags[n].exc = "UnsupportedTypeError"

C22_Witness ==
    /\ Len(frags) = 1
    /\ tree = DIndexed(<<DProp("a", DString, FALSE)>>, DString)
    /\ ~frags[1].ok
    /\ parseDesc(DIndexed(<<>>, DString)).ok
    /\ parseDesc(DObject(tree.properties, FALSE)).ok

----------------------------------------------------------------------------
\* Claims about the rounds of callFlowAutoRetry

\* The round's delay has won the race the function is suspended on.
DelayWon == pc = "await_round" /\ race.st = "rejected" /\ race.err = TimedOutErr

\* Attempt k exits with success in this step.
Succeeds(k) == proc[k].result # "ok" /\ proc'[k].result = "ok"

\* C23: the step in which a round's delay wins and the step that resumes the
\* loop after it change no slot and no process, and the loop goes on to the
\* next round; an attempt that exits with success in whatever round or drain
\* pass settles the pending race, and the call returns its output.
C23_DelayWinKeepsAttempts ==
    [][/\ (race.st = "pending" /\ race'.err = TimedOutErr)
            => UNCHANGED <<childs, promises, proc, pc, i>>
       /\ DelayWon
            => /\ UNCHANGED <<childs, promises, proc, outcome>>
               /\ pc' = "round" /\ i' = i + 1
       /\ \A k \in 1..Len(proc) :
            Succeeds(k) => race.st = "pending" /\ race' = [st |-> "resolved", by |-> k, err |-> NoErr]
       /\ (race.st = "resolved" /\ race' # race)
            => outcome' = [kind |-> "return", by |-> race.by, err |-> NoErr]
       /\ (\E k \in 1..Len(proc) : proc[k].result = "ok") /\ pc = "finally"
            => outcome.kind = "return" /\ outcome' = outcome
      ]_vars

\* The first round's delay won, and the first attempt succeeded in the
\* second round, with the second attempt still running: its output is returned.
C23_Witness ==
    /\ Settled
    /\ i = 1 /\ Len(proc) = 2
    /\ proc[1].result = "ok" /\ proc[1].exitedAt >= RoundDelay(0)
    /\ proc[2].st = "signalled"
    /\ outcome = [kind |-> "return", by |-> 1, err |-> NoErr]

\* An attempt of an earlier round succeeds during the drain.
C23_WitnessDrain ==
    /\ Settled
    /\ i = MAX_RETRIES
    /\ outcome.kind = "return" /\ outcome.by < MAX_RETRIES

\* The active set, by the test the code applies to a slot (x != null), and
\* the attempts by the state of their process
ActiveChilds == {k \in 1..Len(childs) : childs[k] \notin {"null", "undefined"}}
ActivePromises == Avail(promises)
NotExited == {k \in 1..Len(proc) : Live(k)}
Exited == {k \in 1..Len(proc) : proc[k].st = "exited"}
StartFailed == {k \in 1..Len(proc) : proc[k].st = "nostart"}

\* C24 as stated: the non-null slots of childs and of promises are at every
\* moment exactly the attempts whose process has not exited.
C24_ActiveSetAsStated ==
    /\ ActiveChilds = NotExited
    /\ ActivePromises = NotExited

\* C24: the non-null slots of childs are exactly the attempts whose process
\* has not exited, and those of promises are these and the attempt whose
\* process could not be started: its rejected promise stays in its slot, it
\* is the newest attempt and its error ends the call.  The slots of an
\* attempt become null in the step its process exits, a race set up later
\* does not contain it, and a slot is never moved or used again.
C24_ActiveSet ==
    [][/\ ActiveChilds' = NotExited'
       /\ ActivePromises' = NotExited' \cup StartFailed'
       /\ \A k \in StartFailed' :
            /\ k = Len(proc')
            /\ \/ pc' = "await_round" /\ race' = [st |-> "rejected", by |-> k, err |-> StartErr(k)]
               \/ pc' \in {"finally", "done"} /\ outcome' = [kind |-> "throw", by |-> k, err |-> StartErr(k)]
       /\ \A k \in NotExited \ NotExited' :
            k \in Exited' /\ childs'[k] = "null" /\ promises'[k] = "null"
       /\ raced' # raced => raced' \cap Exited = {}
       /\ Len(proc') \in {Len(proc), Len(proc) + 1}
       /\ Len(childs') = Len(proc') /\ Len(promises') = Len(proc')
       /\ \A k \in Exited :
            proc'[k] = proc[k] /\ childs'[k] = "null" /\ promises'[k] = "null"
       /\ \A k \in 1..Len(proc) :
            proc'[k].st # "exited" => proc'[k].launchedAt = proc[k].launchedAt
      ]_vars

\* The first attempt was killed by its timeout and has exited; a later round
\* races the other attempts, each in the slot of its launch.
C24_Witness ==
    /\ pc = "await_round" /\ race.st = "pending"
    /\ Len(proc) > 2
    /\ proc[1].st = "exited" /\ proc[1].result = "killed"
    /\ childs[1] = "null" /\ promises[1] = "null"
    /\ raced = 2..Len(proc)
    /\ ActivePromises = raced /\ ActiveChilds = raced

\* The start of the second attempt failed while the first is running.
C24_WitnessStartFailed ==
    /\ Len(proc) = 2
    /\ proc[1].st = "running" /\ proc[2].st = "nostart"
    /\ childs[2] = "undefined" /\ promises[2] = "rej_start"
    /\ ActivePromises = {1, 2} /\ ActiveChilds = {1}

\* C25: every call settles, given that a process that does not exit on its
\* own is killed CALL_TIMEOUT after its launch and then exits.
C25_EventuallySettles == <>Settled

\* All rounds were run and the drain loop ended with no attempt left.
C25_Witness ==
    /\ Settled
    /\ Len(proc) = MAX_RETRIES /\ i = MAX_RETRIES
    /\ outcome = [kind |-> "throw", by |-> -1, err |-> ExhaustedErr]
    /\ \A k \in 1..Len(proc) : proc[k].result = "killed"

\* The delay of the round is armed / has elapsed / was cancelled with ABANDON
\* (its timer is stopped and its promise stays pending).
Armed(t) == t.timerId = "set"
Elapsed(t) == t.timerId = "null" /\ t.st = "resolved" /\ t.res = t.val
Abandoned(t) == t.timerId = "null" /\ t.st = "pending"

\* C26: a round arms its delay only when the delay of the round before is no
\* longer armed, so at most one is armed at a time, and only while the round
\* waits; when the next round starts, in the drain and when the call settles
\* the last delay has elapsed or was cancelled with ABANDON, and an abandoned
\* delay never fires.
C26_OneDelayArmed ==
    [][/\ (timer' # timer /\ Armed(timer')) => ~Armed(timer) /\ pc = "round" /\ pc' = "await_round"
       /\ Armed(timer') => pc' = "await_round"
       /\ (pc' # "await_round" /\ Len(proc') > 0) => Elapsed(timer') \/ Abandoned(timer')
       /\ Abandoned(timer) => timer' = timer \/ (pc = "round" /\ Armed(timer'))
      ]_vars

\* The delay of the first round elapsed, the one of the second round was
\* cancelled with ABANDON when the race was rejected, and the call has settled.
C26_Witness ==
    /\ Settled
    /\ i = 1
    /\ now = RoundDelay(0)
    /\ outcome.kind = "throw"
    /\ Abandoned(timer) /\ timer.due = now + RoundDelay(1)

\* The fourth round is about to start after the delay of the third elapsed.
C26_WitnessElapsed ==
    /\ pc = "round" /\ i = 3
    /\ Elapsed(timer) /\ timer.due = now
    /\ NotExited = 1..3

----------------------------------------------------------------------------
\* The command line tool: writeValidatorSrc is called with a source path and
\* an optional destination path, on a file system with any of the files.

InitCli ==
    /\ RetryStart /\ AsmIdle /\ DelayIdle /\ CompIdle
    /\ fsys \in [DstPaths -> Files]
    /\ before = fsys
    /\ cargs \in [srcPath : SrcPaths, dstPath : DstArgs]
    /\ cpc = "call"
    /\ dstPath = NullPath
    /\ origSrc = <<>>
    /\ newSrc = <<>>
    /\ cerr = "null"
    /\ cliOutcome = NoCliOutcome

SpecCli == InitCli /\ [][NextCli]_vars

\* Claims about writeValidatorSrc

\* gen.makeValidatorSrc has thrown / has returned.
GenFailed == cpc \in {"finish", "done"} /\ cerr # "null"
GenSucceeded == cpc \in {"finish", "done"} /\ cerr = "null" /\ newSrc # <<>>

\* C27: when the generation has failed and the command has ended, every file
\* is as it was when the command was called (a destination that existed has
\* its whole original content, flow mark included, and one that did not
\* exist does not exist) and the command throws the generation's error; a
\* file differs from its original at the end only if it is the destination
\* and the generation succeeded, and then it holds the new source; while the
\* command runs, the destination holds its original content with or without
\* the flow mark, and no other file is touched.
C27_FailureRestoresDestination ==
    /\ (cpc = "done" /\ GenFailed)
          => fsys = before /\ cliOutcome = [kind |-> "throw", err |-> cerr]
    /\ (cpc = "done" /\ fsys # before)
          => /\ GenSucceeded
             /\ fsys = [before EXCEPT ![dstPath] = File(newSrc[1])]
    /\ (cpc = "done" /\ GenSucceeded)
          => fsys[dstPath] = File(newSrc[1]) /\ cliOutcome.kind = "return"
    /\ cpc \in {"gen", "finish"}
          => /\ \A path \in DstPaths \ {dstPath} : fsys[path] = before[path]
             /\ \/ fsys[dstPath] = before[dstPath]
                \/ /\ before[dstPath].exists /\ HasFlowMark(before[dstPath].data)
                   /\ fsys[dstPath] = File(StripMark(before[dstPath].data))

\* The destination started with the flow mark, the generation failed, and
\* the file has its original content again.
C27_Witness ==
    /\ cpc = "done" /\ GenFailed
    /\ before[dstPath] = File(flowMark \o <<"\n", "a">>)
    /\ origSrc = <<flowMark \o <<"\n", "a">>>>
    /\ fsys[dstPath] = before[dstPath]
    /\ cliOutcome.kind = "throw"

\* The destination did not exist and the generation failed.
C27_WitnessAbsent ==
    /\ cpc = "done" /\ GenFailed
    /\ before[dstPath] = Absent
    /\ fsys[dstPath] = Absent

\* The mark is stripped while the generation runs.
C27_WitnessStripped ==
    /\ cpc = "gen"
    /\ before[dstPath] = File(GenSrc("1"))
    /\ fsys[dstPath] = File(<<"\n", "1">>)

====
